---- MODULE Spec2Model ----
(***************************************************************************)
(* Journal App (Archive/v1.2/app.js): entry repository, journals           *)
(* (notebooks), chronological ordering, migration and search scope.        *)
(*                                                                         *)
(* Encoding of JavaScript values:                                          *)
(*   - ISO timestamps and YYYY-MM-DD dates are positive integers ordered   *)
(*     as the strings are; 0 is an absent / falsy value (undefined, null,  *)
(*     ""), WrongNum is a truthy value of the wrong type.                  *)
(*   - entry ids are positive integers, 0 is null / absent.                *)
(*   - journal ids, titles and bodies are strings, "" is absent / falsy,   *)
(*     WrongStr is a truthy value of the wrong type.                       *)
(*   - journal names are sequences of one-character strings, so that       *)
(*     trim / whitespace collapsing / lower-casing are computed.           *)
(*   - arrays are sequences; NotArray is a value that is not an array.     *)
(*   - a tag is a record of its text and colour (strings, "" absent); its   *)
(*     id and its position on the photo are left out.                      *)
(*   - texts are turned into sequences of characters (Chars) where the     *)
(*     code looks into them.                                               *)
(***************************************************************************)
EXTENDS Integers, Sequences, FiniteSets, TLC

\* ---------------------------------------------------------------- bounds
MaxTime == 3
MaxEntries == 3
MaxNotebooks == 3
MaxGenIds == 2
MaxTokens == 3
MaxTags == 1
MaxTagsPerEntry == 2
MaxIndexed == 2

\* ------------------------------------------------------ value encodings
WrongNum == 0 - 1
WrongStr == "#wrongtype"
\* longer than every array of the model
NotArray == <<"#", "n", "o", "t", "a", "r", "r", "a", "y">>
Today == 2
Dates == 1..Today

Truthy(v) == v # 0
TruthyStr(s) == s # ""
IsArray(v) == v # NotArray

\* a journal list that is not an array, and Array.isArray on a journal list
NotArrayList == <<[id |-> WrongStr, name |-> <<>>, createdAt |-> WrongNum,
                   updatedAt |-> WrongNum]>>
IsArrayList(v) == v # NotArrayList

Last(s) == s[Len(s)]
Range(s) == {s[i] : i \in 1..Len(s)}
Min(S) == CHOOSE x \in S : \A y \in S : x <= y

\* generateId(): Date.now() in base 36 plus a random suffix; the k-th call
\* returns a token no earlier call and no imported record carries.
GenEntryId(k) == 10 + k
GenNotebookId(k) == "g" \o ToString(k)

\* ------------------------------------------------------ string helpers
NameJournal == <<"J", "o", "u", "r", "n", "a", "l">>
NameImported == <<"I", "m", "p", "o", "r", "t", "e", "d", " ", "J", "o", "u", "r", "n", "a", "l">>
NameWork == <<"W">>

IsSpace(c) == c = " "

\* the characters of a text
Chars(s) == [i \in 1..Len(s) |-> SubSeq(s, i, i)]

UpperCase == Chars("ABCDEFGHIJKLMNOPQRSTUVWXYZ")
LowerCase == Chars("abcdefghijklmnopqrstuvwxyz")
LowerOf == [c \in {UpperCase[i] : i \in 1..26} |->
              LowerCase[CHOOSE i \in 1..26 : UpperCase[i] = c]]

ToLowerChar(c) == IF c \in DOMAIN LowerOf THEN LowerOf[c] ELSE c

ToLowerCase(s) == [i \in 1..Len(s) |-> ToLowerChar(s[i])]

\* String.prototype.trim
Trim(s) ==
  LET inked == {i \in 1..Len(s) : ~IsSpace(s[i])}
  IN IF inked = {} THEN <<>>
     ELSE SubSeq(s, CHOOSE i \in inked : \A j \in inked : i <= j,
                    CHOOSE i \in inked : \A j \in inked : i >= j)

\* s.replace(/\s+/g, " "): of a run of whitespace the first character stays
CollapseWhitespace(s) ==
  LET marked == [i \in 1..Len(s) |->
                   [c |-> s[i], drop |-> i > 1 /\ IsSpace(s[i]) /\ IsSpace(s[i - 1])]]
      kept == SelectSeq(marked, LAMBDA m : ~m.drop)
  IN [i \in 1..Len(kept) |-> kept[i].c]

normalizeNotebookName(name) == ToLowerCase(CollapseWhitespace(Trim(name)))

\* the text the inline add / rename editors keep: trim + collapse, case kept
CleanNameInput(name) == CollapseWhitespace(Trim(name))

\* ------------------------------------------------------------ migration
\* a migration that stamps updatedAt anew on every run
migrateEntryRestamp(e, nowIso, today) ==
  [e EXCEPT !.notebookId = IF ~TruthyStr(@) THEN "default" ELSE @,
            !.tags = IF ~IsArray(@) THEN <<>> ELSE @,
            !.attachments = IF ~IsArray(@) THEN <<>> ELSE @,
            !.createdAt = IF Truthy(@) THEN @ ELSE nowIso,
            !.updatedAt = nowIso,
            !.date = IF Truthy(@) THEN @ ELSE today,
            !.title = IF TruthyStr(@) THEN @ ELSE "",
            !.body = IF TruthyStr(@) THEN @ ELSE ""]

\* nowIso is new Date().toISOString() and today formatDateForInput(new Date())
\* at the call
migrateEntry(e, nowIso, today) ==
  LET created == IF ~Truthy(e.createdAt) /\ Truthy(e.updatedAt) THEN e.updatedAt
                 ELSE IF ~Truthy(e.createdAt) THEN nowIso
                 ELSE e.createdAt
      updated == IF ~Truthy(e.updatedAt) /\ Truthy(created) THEN created
                 ELSE IF ~Truthy(e.updatedAt) THEN nowIso
                 ELSE e.updatedAt
  IN [e EXCEPT !.notebookId = IF ~TruthyStr(@) THEN "default" ELSE @,
               !.tags = IF ~IsArray(@) THEN <<>> ELSE @,
               !.attachments = IF ~IsArray(@) THEN <<>> ELSE @,
               !.createdAt = created,
               !.updatedAt = updated,
               !.date = IF Truthy(@) THEN @ ELSE today,
               !.title = IF TruthyStr(@) THEN @ ELSE "",
               !.body = IF TruthyStr(@) THEN @ ELSE ""]

MigrateEntries(list, nowIso) ==
  [i \in 1..Len(list) |-> migrateEntry(list[i], nowIso, Today)]

ensureNotebookShape(n, nowIso, freshId) ==
  [id |-> IF TruthyStr(n.id) THEN n.id ELSE freshId,
   name |-> IF Trim(n.name) # <<>> THEN Trim(n.name) ELSE NameJournal,
   createdAt |-> IF Truthy(n.createdAt) THEN n.createdAt ELSE nowIso,
   updatedAt |-> IF Truthy(n.updatedAt) THEN n.updatedAt ELSE nowIso]

DefaultNotebook(nowIso) ==
  [id |-> "default", name |-> NameJournal, createdAt |-> nowIso, updatedAt |-> nowIso]

\* number of generateId() calls ensureNotebookShape makes over list[1..i]
IdsConsumed(list, i) == Cardinality({j \in 1..i : ~TruthyStr(list[j].id)})

\* k is the number of ids generated before the call
migrateNotebooks(list, nowIso, k) ==
  LET raw == IF IsArrayList(list) THEN list ELSE <<>>
      migrated == [i \in 1..Len(raw) |->
                     ensureNotebookShape(raw[i], nowIso,
                                         GenNotebookId(k + IdsConsumed(raw, i)))]
      nonEmpty == IF Len(migrated) = 0 THEN <<DefaultNotebook(nowIso)>> ELSE migrated
      hasDefault == \E i \in 1..Len(nonEmpty) : nonEmpty[i].id = "default"
  IN IF hasDefault THEN nonEmpty ELSE <<DefaultNotebook(nowIso)>> \o nonEmpty

\* ---------------------------------------------------------------- state
VARIABLES
  entries,                  \* let entries = []
  notebooks,                \* let notebooks = []
  activeNotebookId,         \* let activeNotebookId
  currentEntryId,           \* let currentEntryId (0 is null)
  now,                      \* the clock new Date() reads
  idSeq,                    \* number of generateId() calls so far
  initOk,                   \* init() ran to its end and wired the handlers
  fieldDate,                \* value of the #entry-date input (0: empty / no input)
  fieldTitle,               \* value of the #entry-title input ("": empty / no input)
  fieldBody,                \* value of the #entry-body textarea ("": empty / no input)
  currentTags,              \* let currentTags = []
  currentEntrySnapshot,     \* let currentEntrySnapshot (<<>> is null)
  isEditorDirty,            \* let isEditorDirty: date / title / notes dirty
  isNonTextDirty,           \* let isNonTextDirty: photo / tags dirty
  searchVisible,            \* #page-search is not hidden
  journalVisible,           \* #page-journal is not hidden
  searchItems,              \* entry ids of the result items rendered in #search-results
  searchBadges,             \* opts.showNotebookBadges of the rendered result list
  searchState,              \* opts.state of the last renderSearchResults ("none": never)
  searchTagItems,           \* tag records of the result items rendered in tag mode
  searchScopeSpec,          \* opts.scopeSpec the rendered tag items close over
  searchScopeLabel,         \* opts.scopeLabel in the title of the search card
  searchOpenedFromEntryId,  \* let searchOpenedFromEntryId (0 is null)
  searchPickedEntryId,      \* let searchPickedEntryId (0 is null)
  currentDayIso,            \* let currentDayIso (0 is null)
  currentDayEntries,        \* let currentDayEntries, as entry ids
  importPending,            \* applyImportedData is suspended at its await
  lsEntries,                \* localStorage[STORAGE_KEY], parsed
  lsNotebooks,              \* localStorage[NOTEBOOKS_KEY], parsed
  lsActiveId,               \* localStorage[ACTIVE_NOTEBOOK_KEY]
  storageFails,             \* localStorage.setItem throws (quota, private mode)
  uncaught,                 \* an exception left a handler
  images,                   \* ids of the blobs in the IndexedDB store "images"
  imageStoreFails,          \* the transactions of the image store fail
  photoPending,             \* handlePhotoFile between its awaits
  lastOp,                   \* the handler that ran last, with its argument
  fnArg,                    \* a function under check: its input
  fnRes                     \* a function under check: its results

persistVars == <<lsEntries, lsNotebooks, lsActiveId, storageFails, uncaught>>

photoVars == <<images, imageStoreFails, photoPending>>

vars == <<entries, notebooks, activeNotebookId, currentEntryId, now, idSeq, initOk,
          fieldDate, fieldTitle, fieldBody, currentTags, currentEntrySnapshot,
          isEditorDirty, isNonTextDirty, searchVisible, journalVisible, searchItems,
          searchBadges, searchState, searchTagItems, searchScopeSpec, searchScopeLabel,
          searchOpenedFromEntryId, searchPickedEntryId, currentDayIso,
          currentDayEntries, importPending, lastOp, fnArg, fnRes, persistVars,
          photoVars>>

appVars == <<entries, notebooks, activeNotebookId, currentEntryId, now, idSeq, initOk,
             fieldDate, fieldTitle, fieldBody, currentTags, currentEntrySnapshot,
             isEditorDirty, isNonTextDirty, searchVisible, journalVisible, searchItems,
             searchBadges, searchState, searchTagItems, searchScopeSpec, searchScopeLabel,
             searchOpenedFromEntryId, searchPickedEntryId, currentDayIso,
             currentDayEntries, importPending, persistVars, photoVars>>

memVars == <<entries, notebooks, activeNotebookId, currentEntryId, now, idSeq, initOk,
             fieldDate, fieldTitle, fieldBody, currentTags, currentEntrySnapshot,
             isEditorDirty, isNonTextDirty, searchVisible, journalVisible, searchItems,
             searchBadges, searchState, searchTagItems, searchScopeSpec, searchScopeLabel,
             searchOpenedFromEntryId, searchPickedEntryId, currentDayIso,
             currentDayEntries, importPending>>

fnVars == <<fnArg, fnRes>>

\* no function under check
NoArg == [kind |-> "none", list |-> <<>>]
NoRes == [op |-> "none", at |-> 0, once |-> <<>>, twice |-> <<>>]

\* --------------------------------------------------------- core helpers
NotebookOf(e) == IF TruthyStr(e.notebookId) THEN e.notebookId ELSE "default"

NotebookIds(nbs) == {nbs[i].id : i \in 1..Len(nbs)}

\* an activation that trusts the id it is given
setActiveNotebookIdUnchecked(nbs, nextId) == nextId

\* setActiveNotebookId(nextId): the id it activates
setActiveNotebookId(nbs, nextId) ==
  IF \E i \in 1..Len(nbs) : nbs[i].id = nextId THEN nextId
  ELSE IF Len(nbs) > 0 THEN nbs[1].id
  ELSE "default"

EntriesFor(es, nbId) == SelectSeq(es, LAMBDA e : NotebookOf(e) = nbId)

countEntriesForNotebook(es, nbId) == Len(EntriesFor(es, nbId))

\* String.prototype.localeCompare on two dates, two timestamps or two ids
localeCompare(a, b) == IF a < b THEN 0 - 1 ELSE IF a > b THEN 1 ELSE 0

\* a comparator that leaves out the updatedAt step
compareChronoNoUpdated(a, b) ==
  IF a.date # b.date THEN localeCompare(a.date, b.date)
  ELSE IF a.createdAt # b.createdAt THEN localeCompare(a.createdAt, b.createdAt)
  ELSE localeCompare(a.id, b.id)

\* a comparator that looks at updatedAt before createdAt
compareChronoUpdatedFirst(a, b) ==
  IF a.date # b.date THEN localeCompare(a.date, b.date)
  ELSE IF a.updatedAt # b.updatedAt THEN localeCompare(a.updatedAt, b.updatedAt)
  ELSE IF a.createdAt # b.createdAt THEN localeCompare(a.createdAt, b.createdAt)
  ELSE localeCompare(a.id, b.id)

\* the comparator of getChronologicallySortedEntries
compareChrono(a, b) ==
  IF a.date # b.date THEN localeCompare(a.date, b.date)
  ELSE IF a.createdAt # b.createdAt THEN localeCompare(a.createdAt, b.createdAt)
  ELSE IF a.updatedAt # b.updatedAt THEN localeCompare(a.updatedAt, b.updatedAt)
  ELSE localeCompare(a.id, b.id)

\* Array.prototype.sort (stable) with compareChrono, as an insertion sort
RECURSIVE SortChrono(_)
SortChrono(s) ==
  IF s = <<>> THEN <<>>
  ELSE LET r == SortChrono(SubSeq(s, 1, Len(s) - 1))
           x == Last(s)
           k == Cardinality({i \in 1..Len(r) : compareChrono(r[i], x) <= 0})
       IN SubSeq(r, 1, k) \o <<x>> \o SubSeq(r, k + 1, Len(r))

getChronologicallySortedEntries(es, nbId) == SortChrono(EntriesFor(es, nbId))

\* the comparator of the search result lists: updatedAt descending
compareRecency(a, b) == localeCompare(b.updatedAt, a.updatedAt)

RECURSIVE SortRecency(_)
SortRecency(s) ==
  IF s = <<>> THEN <<>>
  ELSE LET r == SortRecency(SubSeq(s, 1, Len(s) - 1))
           x == Last(s)
           k == Cardinality({i \in 1..Len(r) : compareRecency(r[i], x) <= 0})
       IN SubSeq(r, 1, k) \o <<x>> \o SubSeq(r, k + 1, Len(r))

IdsOf(s) == [i \in 1..Len(s) |-> s[i].id]

\* entries.find(e => e.id === id): index of the first such entry, 0 if none
FindIndex(es, id) ==
  IF \E i \in 1..Len(es) : es[i].id = id
  THEN Min({i \in 1..Len(es) : es[i].id = id})
  ELSE 0

\* getCurrentEntryObject(): index into entries, 0 for null
CurrentIndex(es, cur) == IF ~Truthy(cur) THEN 0 ELSE FindIndex(es, cur)

RemoveAt(s, i) == SubSeq(s, 1, i - 1) \o SubSeq(s, i + 1, Len(s))

\* a shape that files every new entry under the default journal
ensureEntryShapeInDefault(nbId, nowIso, id) ==
  [id |-> id, notebookId |-> "default",
   date |-> Today, title |-> "", body |-> "", imageId |-> 0,
   tags |-> <<>>, attachments |-> <<>>,
   createdAt |-> nowIso, updatedAt |-> nowIso]

ensureEntryShape(nbId, nowIso, id) ==
  [id |-> id, notebookId |-> IF TruthyStr(nbId) THEN nbId ELSE "default",
   date |-> Today, title |-> "", body |-> "", imageId |-> 0,
   tags |-> <<>>, attachments |-> <<>>,
   createdAt |-> nowIso, updatedAt |-> nowIso]

\* setCurrentEntrySnapshotFromEntry(entry) for an entry
Snapshot(e) == [date |-> e.date, title |-> e.title, body |-> e.body]

\* recomputeEditorDirty(): the value it gives isEditorDirty; hasEntry is
\* getCurrentEntryObject() # null, snap the snapshot (<<>> is null) and
\* fd, ft, fb the values of the inputs
recomputeEditorDirty(hasEntry, snap, fd, ft, fb) ==
  IF ~hasEntry THEN FALSE
  ELSE IF snap = <<>> THEN TRUE
  ELSE fd # snap[1].date \/ ft # snap[1].title \/ fb # snap[1].body

\* syncSaveButtonState(): the Save button is enabled
SaveEnabled(edirty, ndirty) == edirty \/ ndirty

\* a tag as the tag dialog makes it
Tag(text, color) == [text |-> text, color |-> color]

\* no scope specification
NoScopeSpec == [scope |-> "none", notebookId |-> "", notebookName |-> <<>>,
                cleanedQuery |-> <<>>]

\* the scope label of the search card: "All Journals", "Journal: <name>" or
\* "Journal not found: <name>"; none before the first search
Label(kind, name) == [kind |-> kind, name |-> name]

\* the day-grouping goToEntryAtIndex / saveCurrentEntry derive for a date:
\* the entries of that date when there is more than one, else nothing
DayGroup(sorted, iso) ==
  LET sameDay == SelectSeq(sorted, LAMBDA e : e.date = iso)
  IN IF Len(sameDay) > 1 THEN [iso |-> iso, ids |-> IdsOf(sameDay)]
     ELSE [iso |-> 0, ids |-> <<>>]

NoDayGroup == [iso |-> 0, ids |-> <<>>]

\* localeCompare on names: letters first (case ignored), the case
\* of the first differing character (lower before upper) breaks a tie
Alphabet == <<" ">> \o LowerCase

AlphabetRank == [c \in Range(Alphabet) |-> Min({i \in 1..Len(Alphabet) : Alphabet[i] = c})]

CharRank(c) == AlphabetRank[ToLowerChar(c)]

RECURSIVE LetterCompare(_, _)
LetterCompare(a, b) ==
  IF a = <<>> /\ b = <<>> THEN 0
  ELSE IF a = <<>> THEN 0 - 1
  ELSE IF b = <<>> THEN 1
  ELSE IF CharRank(Head(a)) # CharRank(Head(b))
  THEN localeCompare(CharRank(Head(a)), CharRank(Head(b)))
  ELSE LetterCompare(Tail(a), Tail(b))

RECURSIVE CaseCompare(_, _)
CaseCompare(a, b) ==
  IF a = <<>> \/ b = <<>> THEN 0
  ELSE IF Head(a) # Head(b) THEN (IF Head(a) = ToLowerChar(Head(a)) THEN 0 - 1 ELSE 1)
  ELSE CaseCompare(Tail(a), Tail(b))

localeCompareNames(a, b) ==
  IF LetterCompare(a, b) # 0 THEN LetterCompare(a, b) ELSE CaseCompare(a, b)

\* ------------------------------------------------ stored / imported data
RawEntry(id, nbId, date, created, updated) ==
  [id |-> id, notebookId |-> nbId, date |-> date, title |-> "", body |-> "",
   imageId |-> 0, tags |-> <<>>, attachments |-> <<>>,
   createdAt |-> created, updatedAt |-> updated]

\* records as localStorage or an import file may hold them: complete ones,
\* one of an old version with every optional field missing, and ones whose
\* notebookId names a journal ("n1", "x") the journal list may not contain
R1 == [RawEntry(1, "default", 1, 1, 1) EXCEPT !.title = "w", !.tags = <<Tag("proj", "")>>]
R2 == [RawEntry(2, "default", 1, 2, 2) EXCEPT !.body = "W x", !.tags = <<Tag("Blue ", "c1")>>]
R3 == [RawEntry(2, "n1", 1, 1, 2) EXCEPT !.title = "w", !.body = "x",
                                          !.tags = <<Tag("blue", "")>>]
R4 == RawEntry(1, "", 0, 0, 0)
R5 == [RawEntry(3, "x", 2, 0, 1) EXCEPT !.title = "aW", !.tags = <<Tag("Project", "c2")>>]

RawNotebook(id, name, created, updated) ==
  [id |-> id, name |-> name, createdAt |-> created, updatedAt |-> updated]

N0 == RawNotebook("default", NameJournal, 1, 1)
N1 == RawNotebook("n1", NameWork, 1, 1)
N2 == RawNotebook("n1", NameJournal, 1, 2)
N3 == RawNotebook("", <<" ">>, 0, 0)

Stored(es, nbs, active) == [entries |-> es, notebooks |-> nbs, active |-> active]

\* contents of localStorage at start-up: a first run, two journals with the
\* saved journal holding entries (stored out of chronological order) or
\* none, data of an old version, and a journal list that lacks the journals
\* the entries name
StoredStates ==
  { Stored(<<>>, <<>>, ""),
    Stored(<<R2, R1>>, <<N0, N1>>, "default"),
    Stored(<<R2, R3>>, <<N0, N1>>, "n1"),
    Stored(<<R1>>, <<N0, N1>>, "n1"),
    Stored(<<R4>>, <<>>, "gone"),
    Stored(<<R5, R1>>, <<N2>>, "") }

Payload(es, withNotebooks, nbs, active) ==
  [entries |-> es, withNotebooks |-> withNotebooks, notebooks |-> nbs, active |-> active]

\* parsed import files: bare entry arrays and bundles
ImportPayloads ==
  { Payload(<<R1, R2>>, FALSE, <<>>, ""),
    Payload(<<R3, R5>>, FALSE, <<>>, ""),
    Payload(<<R1, R3>>, TRUE, <<N0, N1>>, "n1"),
    Payload(<<R5, R1>>, TRUE, <<N1>>, "gone"),
    Payload(<<R4>>, TRUE, <<N3>>, "") }

\* no upload of a photo is pending; forId is history, the id of the entry
\* that was current when the file was chosen
NoPhoto == [phase |-> "none", ref |-> 0, oldId |-> 0, newId |-> 0, forId |-> 0]

\* the id generateId() gives the k-th blob
GenImageId(k) == 20 + k

\* --------------------------------------------------------------- init()
\* The state init() leaves for one content of localStorage. When the
\* active journal has no entry while another journal has, sorted is empty
\* and mostRecent.id throws: init() stops before it wires any handler.
InitFrom(storedEntries, storedNotebooks, savedActive) ==
  LET es == MigrateEntries(storedEntries, 2)
      nbs == migrateNotebooks(storedNotebooks, 2, 0)
      k == IdsConsumed(storedNotebooks, Len(storedNotebooks))
      act == setActiveNotebookId(nbs, IF TruthyStr(savedActive) THEN savedActive
                                      ELSE nbs[1].id)
      sorted == getChronologicallySortedEntries(es, act)
      fresh == ensureEntryShape(act, 2, GenEntryId(k + 1))
      opened == IF Len(es) = 0 THEN fresh ELSE Last(sorted)
  IN /\ now = 2
     /\ notebooks = nbs
     /\ activeNotebookId = act
     /\ entries = IF Len(es) = 0 THEN <<fresh>> ELSE es
     /\ idSeq = IF Len(es) = 0 THEN k + 1 ELSE k
     /\ initOk = (Len(es) = 0 \/ Len(sorted) # 0)
     /\ IF Len(es) # 0 /\ Len(sorted) = 0
        THEN /\ currentEntryId = 0
             /\ fieldDate = 0
             /\ fieldTitle = ""
             /\ fieldBody = ""
             /\ currentTags = <<>>
             /\ currentEntrySnapshot = <<>>
             /\ isEditorDirty = FALSE
        ELSE /\ currentEntryId = opened.id
             /\ fieldDate = opened.date
             /\ fieldTitle = opened.title
             /\ fieldBody = opened.body
             /\ currentTags = opened.tags
             /\ currentEntrySnapshot = <<Snapshot(opened)>>
             /\ isEditorDirty = (Len(es) = 0)
     /\ isNonTextDirty = FALSE
     /\ searchVisible = FALSE
     /\ journalVisible = TRUE
     /\ searchItems = <<>>
     /\ searchBadges = FALSE
     /\ searchState = "none"
     /\ searchTagItems = <<>>
     /\ searchScopeSpec = NoScopeSpec
     /\ searchScopeLabel = Label("none", <<>>)
     /\ searchOpenedFromEntryId = 0
     /\ searchPickedEntryId = 0
     /\ currentDayIso = 0
     /\ currentDayEntries = <<>>
     /\ importPending = FALSE
     /\ lsEntries = storedEntries
     /\ lsNotebooks = storedNotebooks
     /\ lsActiveId = act
     /\ storageFails = FALSE
     /\ uncaught = FALSE
     /\ images = {}
     /\ imageStoreFails = FALSE
     /\ photoPending = NoPhoto
     /\ lastOp = [name |-> "init", arg |-> "", n |-> 0, flag |-> FALSE,
                  from |-> 0, clicked |-> FALSE]

FnIdle == fnArg = NoArg /\ fnRes = NoRes

Init ==
  /\ \E st \in StoredStates : InitFrom(st.entries, st.notebooks, st.active)
  /\ FnIdle

\* ------------------------------------------------------- editor / views
\* what the editor shows: current entry, its inputs and tags, the dirty
\* tracking, the day-grouping
CurView ==
  [cur |-> currentEntryId, fdate |-> fieldDate, ftitle |-> fieldTitle,
   fbody |-> fieldBody, tags |-> currentTags, snap |-> currentEntrySnapshot,
   edirty |-> isEditorDirty, ndirty |-> isNonTextDirty,
   dayIso |-> currentDayIso, dayIds |-> currentDayEntries]

\* editorInnerEl emptied (its inputs are gone), currentEntryId = null,
\* day-grouping cleared; the dirty tracking and currentTags stay
EmptyView ==
  [CurView EXCEPT !.cur = 0, !.fdate = 0, !.ftitle = "", !.fbody = "",
                  !.dayIso = 0, !.dayIds = <<>>]

\* renderEditor(e) with currentEntryId = e.id: the inputs show the entry,
\* the snapshot is taken from it and recomputeEditorDirty (at the end of
\* wireEditorInputs) finds the inputs equal to it; the day-grouping is
\* the one given
RenderView(e, dayIso, dayIds) ==
  [cur |-> e.id, fdate |-> e.date, ftitle |-> e.title, fbody |-> e.body,
   tags |-> e.tags, snap |-> <<Snapshot(e)>>,
   edirty |-> recomputeEditorDirty(TRUE, <<Snapshot(e)>>, e.date, e.title, e.body),
   ndirty |-> FALSE, dayIso |-> dayIso, dayIds |-> dayIds]

ApplyView(v) ==
  /\ currentEntryId' = v.cur
  /\ fieldDate' = v.fdate
  /\ fieldTitle' = v.ftitle
  /\ fieldBody' = v.fbody
  /\ currentTags' = v.tags
  /\ currentEntrySnapshot' = v.snap
  /\ isEditorDirty' = v.edirty
  /\ isNonTextDirty' = v.ndirty
  /\ currentDayIso' = v.dayIso
  /\ currentDayEntries' = v.dayIds

\* goToEntryAtIndex(idx) (idx counted from 1) on entries es with active
\* journal act; sv is isSearchVisible() at the call, view the view before
goToEntryAtIndex(es, act, idx, sv, view) ==
  LET sorted == getChronologicallySortedEntries(es, act)
  IN IF idx < 1 \/ idx > Len(sorted) THEN view
     ELSE LET target == sorted[idx]
              grp == IF ~sv THEN DayGroup(sorted, target.date) ELSE NoDayGroup
          IN RenderView(target, grp.iso, grp.ids)

\* renderEditor(mostRecent) with currentEntryId = mostRecent.id, as
\* selectNotebook, performDelete, applyImportedData and init do; the
\* day-grouping is the one given
OpenMostRecent(sorted, dayIso, dayIds) == RenderView(Last(sorted), dayIso, dayIds)

\* showJournalView(): ends the search session when the search page is shown
ShowJournalView(sv, openedFrom, picked) ==
  /\ searchOpenedFromEntryId' = IF sv THEN 0 ELSE openedFrom
  /\ searchPickedEntryId' = IF sv THEN 0 ELSE picked
  /\ searchVisible' = FALSE
  /\ journalVisible' = TRUE

\* the result list rendered in #search-results
resultVars == <<searchItems, searchBadges, searchState, searchTagItems, searchScopeSpec,
                searchScopeLabel>>

searchVars == <<searchVisible, journalVisible, resultVars,
                searchOpenedFromEntryId, searchPickedEntryId>>

editorVars == <<fieldDate, fieldTitle, fieldBody, currentTags, currentEntrySnapshot,
                isEditorDirty, isNonTextDirty>>

viewVars == <<currentEntryId, editorVars, currentDayIso, currentDayEntries>>

\* lastOp records the handler that ran: its name and argument, and for a
\* journal deletion the number of entries it removed (n) and whether the
\* journal was the active one (flag)
\* lastOp also keeps the history of the search session: the entry that was
\* current when the search page appeared (from) and whether a result item
\* was clicked since (clicked). A search with the page hidden starts a
\* session, the close button ends it.
OpInfo(name, arg, n, flag) ==
  lastOp' = [name |-> name, arg |-> arg, n |-> n, flag |-> flag,
             from |-> IF name = "runSearch" /\ ~searchVisible THEN currentEntryId
                      ELSE IF name = "closeSearchResults" THEN 0
                      ELSE lastOp.from,
             clicked |-> IF name = "openSearchResult" THEN TRUE
                         ELSE IF name = "runSearch" /\ ~searchVisible THEN FALSE
                         ELSE IF name = "closeSearchResults" THEN FALSE
                         ELSE lastOp.clicked]

Op(name, arg) == OpInfo(name, arg, 0, FALSE)

\* ----------------------------------------------------------- persistence
\* StorageAdapter.save, NotebookAdapter.save and NotebookAdapter.saveActiveId:
\* try { localStorage.setItem(...) } catch (err) { ... }. `written` tells
\* whether the key took the value, `thrown` whether the exception leaves
\* the adapter.
\* an adapter without the try / catch
StorageAdapterSaveUncaught == [written |-> ~storageFails, thrown |-> storageFails]

\* an adapter that drops the write
StorageAdapterSaveSkipped == [written |-> FALSE, thrown |-> FALSE]

StorageAdapterSave == [written |-> ~storageFails, thrown |-> FALSE]

NotebookAdapterSave == [written |-> ~storageFails, thrown |-> FALSE]

NotebookAdapterSaveActiveId == [written |-> ~storageFails, thrown |-> FALSE]

\* The writes of one handler: e, n and a are <<>> (no write) or <<value>>
\* for journalService.saveAll, notebookService.saveAll and
\* notebookService.saveActiveId.
Persist(e, n, a) ==
  /\ lsEntries' = IF Len(e) = 1 /\ StorageAdapterSave.written THEN e[1] ELSE lsEntries
  /\ lsNotebooks' = IF Len(n) = 1 /\ NotebookAdapterSave.written THEN n[1] ELSE lsNotebooks
  /\ lsActiveId' = IF Len(a) = 1 /\ NotebookAdapterSaveActiveId.written THEN a[1]
                   ELSE lsActiveId
  /\ uncaught' = (\/ uncaught
                  \/ Len(e) = 1 /\ StorageAdapterSave.thrown
                  \/ Len(n) = 1 /\ NotebookAdapterSave.thrown
                  \/ Len(a) = 1 /\ NotebookAdapterSaveActiveId.thrown)
  /\ UNCHANGED storageFails

NoPersist == Persist(<<>>, <<>>, <<>>)

\* localStorage starts or stops refusing writes
storageQuota ==
  /\ initOk
  /\ storageFails' = ~storageFails
  /\ UNCHANGED <<memVars, lsEntries, lsNotebooks, lsActiveId, uncaught,
                 photoVars, lastOp, fnVars>>

\* ---------------------------------------------------------------- photos
\* the object a pending upload holds is the ref-th element of `entries`
\* (0: an object that is no longer in the array)
\* where the held object is after the rawIdx-th element was spliced out
RebaseSpliced(p, rawIdx) ==
  [p EXCEPT !.ref = IF @ = rawIdx THEN 0 ELSE IF @ > rawIdx THEN @ - 1 ELSE @]

\* where the held object is after the entries of journal id were filtered out
RebaseFiltered(p, es, id) ==
  [p EXCEPT !.ref = IF @ = 0 THEN 0
                    ELSE IF NotebookOf(es[@]) = id THEN 0
                    ELSE Cardinality({j \in 1..@ : NotebookOf(es[j]) # id})]

\* the image store starts or stops failing its transactions
imageStoreHealth ==
  /\ initOk
  /\ imageStoreFails' = ~imageStoreFails
  /\ UNCHANGED <<memVars, persistVars, images, photoPending, lastOp, fnVars>>

\* --------------------------------------------------------------- actions
Tick ==
  /\ initOk
  /\ now < MaxTime
  /\ now' = now + 1
  /\ UNCHANGED <<entries, notebooks, activeNotebookId, idSeq, initOk, importPending,
                 lastOp, viewVars, searchVars, fnVars, persistVars, photoVars>>

newEntry ==
  /\ initOk
  /\ Len(entries) < MaxEntries
  /\ idSeq < MaxGenIds
  /\ LET fresh == ensureEntryShape(activeNotebookId, now, GenEntryId(idSeq + 1))
     IN /\ entries' = Append(entries, fresh)
        /\ ApplyView([RenderView(fresh, 0, <<>>) EXCEPT !.edirty = TRUE])
  /\ idSeq' = idSeq + 1
  /\ ShowJournalView(searchVisible, searchOpenedFromEntryId, searchPickedEntryId)
  /\ NoPersist
  /\ UNCHANGED photoVars
  /\ Op("newEntry", "")
  /\ UNCHANGED <<notebooks, activeNotebookId, now, initOk, importPending,
                 resultVars, fnVars>>

\* the change handler of #entry-date: the edit is staged in the input
editDate(d) ==
  /\ initOk
  /\ Truthy(currentEntryId)
  /\ fieldDate' = d
  /\ fieldDate' # fieldDate
  /\ isEditorDirty' = recomputeEditorDirty(CurrentIndex(entries, currentEntryId) # 0,
                                           currentEntrySnapshot, d, fieldTitle, fieldBody)
  /\ NoPersist
  /\ UNCHANGED photoVars
  /\ Op("editDate", "")
  /\ UNCHANGED <<entries, notebooks, activeNotebookId, currentEntryId, now, idSeq, initOk,
                 importPending, fieldTitle, fieldBody, currentTags, currentEntrySnapshot,
                 isNonTextDirty, currentDayIso, currentDayEntries, searchVars, fnVars>>

\* the input handler of #entry-title: the edit is staged in the input
editTitle(t) ==
  /\ initOk
  /\ Truthy(currentEntryId)
  /\ fieldTitle' = t
  /\ fieldTitle' # fieldTitle
  /\ isEditorDirty' = recomputeEditorDirty(CurrentIndex(entries, currentEntryId) # 0,
                                           currentEntrySnapshot, fieldDate, t, fieldBody)
  /\ NoPersist
  /\ UNCHANGED photoVars
  /\ Op("editTitle", "")
  /\ UNCHANGED <<entries, notebooks, activeNotebookId, currentEntryId, now, idSeq, initOk,
                 importPending, fieldDate, fieldBody, currentTags, currentEntrySnapshot,
                 isNonTextDirty, currentDayIso, currentDayEntries, searchVars, fnVars>>

\* the input handler of #entry-body: the edit is staged in the textarea
editBody(b) ==
  /\ initOk
  /\ Truthy(currentEntryId)
  /\ fieldBody' = b
  /\ fieldBody' # fieldBody
  /\ isEditorDirty' = recomputeEditorDirty(CurrentIndex(entries, currentEntryId) # 0,
                                           currentEntrySnapshot, fieldDate, fieldTitle, b)
  /\ NoPersist
  /\ UNCHANGED photoVars
  /\ Op("editBody", "")
  /\ UNCHANGED <<entries, notebooks, activeNotebookId, currentEntryId, now, idSeq, initOk,
                 importPending, fieldDate, fieldTitle, currentTags, currentEntrySnapshot,
                 isNonTextDirty, currentDayIso, currentDayEntries, searchVars, fnVars>>

saveCurrentEntry ==
  /\ initOk
  /\ CurrentIndex(entries, currentEntryId) # 0
  /\ LET i == CurrentIndex(entries, currentEntryId)
         saved == [entries[i] EXCEPT !.date = IF Truthy(fieldDate) THEN fieldDate ELSE @,
                                     !.title = fieldTitle,
                                     !.body = fieldBody,
                                     !.tags = currentTags,
                                     !.updatedAt = now]
         es == [entries EXCEPT ![i] = saved]
         grp == DayGroup(getChronologicallySortedEntries(es, activeNotebookId), saved.date)
     IN /\ entries' = es
        /\ currentEntrySnapshot' = <<Snapshot(saved)>>
        /\ currentDayIso' = IF searchVisible THEN currentDayIso ELSE grp.iso
        /\ currentDayEntries' = IF searchVisible THEN currentDayEntries ELSE grp.ids
  /\ isEditorDirty' = FALSE
  /\ isNonTextDirty' = FALSE
  /\ Persist(<<entries'>>, <<>>, <<>>)
  /\ UNCHANGED photoVars
  /\ Op("saveCurrentEntry", "")
  /\ UNCHANGED <<notebooks, activeNotebookId, currentEntryId, fieldDate, fieldTitle,
                 fieldBody, currentTags, now, idSeq, initOk, importPending, searchVars,
                 fnVars>>

\* what is typed into the title input, the notes and the tag dialog
TitleInputs == {"", "w"}
BodyInputs == {"", "x"}
TagInputs == {"", "Blue ", "blue", "proj"}

\* the text the tag dialog takes: tagDialogInput.value || "Tag"
TagDialogText(text) == IF text = "" THEN "Tag" ELSE text

\* TAG_COLORS[0], the swatch the dialog preselects

\* applyTagDialogChanges(): the dialog was opened to create a tag (mode
\* "create") or on the i-th tag of the entry (mode "edit") and `text` was
\* typed; the edit writes through and refreshes updatedAt
applyTagDialogChanges(mode, i, text) ==
  /\ initOk
  /\ CurrentIndex(entries, currentEntryId) # 0
  /\ \/ mode = "create" /\ i = 0 /\ Len(currentTags) < MaxTags
     \/ mode = "edit" /\ i \in 1..Len(currentTags)
  /\ LET k == CurrentIndex(entries, currentEntryId)
         tag == Tag(TagDialogText(text), "c0")
         tags == IF mode = "create" THEN Append(currentTags, tag)
                 ELSE [currentTags EXCEPT ![i] = tag]
     IN /\ currentTags' = tags
        /\ entries' = [entries EXCEPT ![k].tags = tags, ![k].updatedAt = now]
  /\ isNonTextDirty' = TRUE
  /\ Persist(<<entries'>>, <<>>, <<>>)
  /\ UNCHANGED photoVars
  /\ Op("applyTagDialogChanges", mode)
  /\ UNCHANGED <<notebooks, activeNotebookId, now, idSeq, initOk, importPending,
                 currentEntryId, fieldDate, fieldTitle, fieldBody, currentEntrySnapshot,
                 isEditorDirty, currentDayIso, currentDayEntries, searchVars, fnVars>>

\* deleteActiveTag(): the dialog was opened on the i-th tag
deleteActiveTag(i) ==
  /\ initOk
  /\ i \in 1..Len(currentTags)
  /\ LET k == CurrentIndex(entries, currentEntryId)
         tags == RemoveAt(currentTags, i)
     IN /\ currentTags' = tags
        /\ entries' = IF k = 0 THEN entries
                      ELSE [entries EXCEPT ![k].tags = tags, ![k].updatedAt = now]
        /\ isNonTextDirty' = (k # 0 \/ isNonTextDirty)
  /\ Persist(IF CurrentIndex(entries, currentEntryId) # 0 THEN <<entries'>> ELSE <<>>,
             <<>>, <<>>)
  /\ UNCHANGED photoVars
  /\ Op("deleteActiveTag", "")
  /\ UNCHANGED <<notebooks, activeNotebookId, now, idSeq, initOk, importPending,
                 currentEntryId, fieldDate, fieldTitle, fieldBody, currentEntrySnapshot,
                 isEditorDirty, currentDayIso, currentDayEntries, searchVars, fnVars>>

deleteCurrentEntryShowPrev ==
  /\ initOk
  /\ Truthy(currentEntryId)
  /\ LET sortedBefore == getChronologicallySortedEntries(entries, activeNotebookId)
         sortedIdx == FindIndex(sortedBefore, currentEntryId)
         rawIdx == FindIndex(entries, currentEntryId)
         es == RemoveAt(entries, rawIdx)
         sortedAfter == getChronologicallySortedEntries(es, activeNotebookId)
         targetIdx == IF sortedIdx - 1 > 1 THEN sortedIdx - 1 ELSE 1
     IN /\ sortedIdx # 0
        /\ rawIdx # 0
        /\ entries' = es
        /\ ApplyView(IF Len(sortedAfter) = 0 THEN EmptyView
                     ELSE goToEntryAtIndex(es, activeNotebookId, targetIdx,
                                           searchVisible, CurView))
  /\ Persist(<<entries'>>, <<>>, <<>>)
  /\ photoPending' = RebaseSpliced(photoPending, FindIndex(entries, currentEntryId))
  /\ UNCHANGED <<images, imageStoreFails>>
  /\ Op("deleteCurrentEntryShowPrev", "")
  /\ UNCHANGED <<notebooks, activeNotebookId, now, idSeq, initOk, importPending,
                 searchVars, fnVars>>

goToPreviousEntry ==
  /\ initOk
  /\ Truthy(currentEntryId)
  /\ LET sorted == getChronologicallySortedEntries(entries, activeNotebookId)
         idx == FindIndex(sorted, currentEntryId)
     IN /\ idx > 1
        /\ ApplyView(goToEntryAtIndex(entries, activeNotebookId, idx - 1,
                                      searchVisible, CurView))
  /\ NoPersist
  /\ UNCHANGED photoVars
  /\ Op("goToPreviousEntry", "")
  /\ UNCHANGED <<entries, notebooks, activeNotebookId, now, idSeq, initOk,
                 importPending, searchVars, fnVars>>

goToNextEntry ==
  /\ initOk
  /\ Truthy(currentEntryId)
  /\ LET sorted == getChronologicallySortedEntries(entries, activeNotebookId)
         idx == FindIndex(sorted, currentEntryId)
     IN /\ idx # 0
        /\ idx < Len(sorted)
        /\ ApplyView(goToEntryAtIndex(entries, activeNotebookId, idx + 1,
                                      searchVisible, CurView))
  /\ NoPersist
  /\ UNCHANGED photoVars
  /\ Op("goToNextEntry", "")
  /\ UNCHANGED <<entries, notebooks, activeNotebookId, now, idSeq, initOk,
                 importPending, searchVars, fnVars>>

\* ------------------------------------------------------ journal actions
\* showEmptyNotebookState() ends with showJournalView()
selectNotebook(id) ==
  /\ initOk
  /\ id \in NotebookIds(notebooks)
  /\ LET act == setActiveNotebookId(notebooks, id)
         sorted == getChronologicallySortedEntries(entries, act)
     IN /\ activeNotebookId' = act
        /\ ApplyView(IF Len(sorted) = 0 THEN EmptyView
                     ELSE OpenMostRecent(sorted, 0, <<>>))
  /\ ShowJournalView(TRUE, 0, 0)
  /\ Persist(<<>>, <<>>, <<activeNotebookId'>>)
  /\ UNCHANGED photoVars
  /\ Op("selectNotebook", id)
  /\ UNCHANGED <<entries, notebooks, now, idSeq, initOk, importPending,
                 resultVars, fnVars>>

\* user input of the inline add / rename editors
NameInputs ==
  { <<" ">>, <<" ", "w", " ", " ", "x", " ">>,
    <<"j", "o", "u", "r", "n", "a", "l">> }

NameTaken(nbs, norm, exceptId) ==
  \E i \in 1..Len(nbs) : nbs[i].id # exceptId /\ normalizeNotebookName(nbs[i].name) = norm

\* requestAddNotebookInline: save()
addNotebook(input) ==
  /\ initOk
  /\ Len(notebooks) < MaxNotebooks
  /\ idSeq < MaxGenIds
  /\ LET name == CleanNameInput(input)
         norm == normalizeNotebookName(name)
         nb == ensureNotebookShape([id |-> "", name |-> name, createdAt |-> now,
                                    updatedAt |-> now], now, GenNotebookId(idSeq + 1))
         nbs == <<nb>> \o notebooks
     IN /\ norm # <<>>
        /\ ~NameTaken(notebooks, norm, "")
        /\ notebooks' = nbs
        /\ activeNotebookId' = setActiveNotebookId(nbs, nb.id)
        /\ Persist(<<>>, <<notebooks'>>, <<activeNotebookId'>>)
        /\ UNCHANGED photoVars
        /\ Op("addNotebook", nb.id)
  /\ idSeq' = idSeq + 1
  /\ ApplyView(EmptyView)
  /\ ShowJournalView(searchVisible, searchOpenedFromEntryId, searchPickedEntryId)
  /\ UNCHANGED <<entries, now, initOk, importPending, resultVars, fnVars>>

\* requestRenameNotebookInline: save()
renameNotebook(id, input) ==
  /\ initOk
  /\ id \in NotebookIds(notebooks)
  /\ LET name == CleanNameInput(input)
         norm == normalizeNotebookName(name)
         i == Min({j \in 1..Len(notebooks) : notebooks[j].id = id})
     IN /\ norm # <<>>
        /\ ~NameTaken(notebooks, norm, id)
        /\ notebooks' = [notebooks EXCEPT ![i].name = name, ![i].updatedAt = now]
  /\ Persist(<<>>, <<notebooks'>>, <<>>)
  /\ UNCHANGED photoVars
  /\ Op("renameNotebook", id)
  /\ UNCHANGED <<entries, activeNotebookId, now, idSeq, initOk, importPending,
                 viewVars, searchVars, fnVars>>

\* a deletion that synthesizes no journal when the list empties
NotebooksAfterDeleteKept(nbs, id, nowIso, k) == SelectSeq(nbs, LAMBDA n : n.id # id)

\* the journal list performDelete leaves
NotebooksAfterDelete(nbs, id, nowIso, k) ==
  LET kept == SelectSeq(nbs, LAMBDA n : n.id # id)
  IN IF Len(kept) = 0 THEN migrateNotebooks(<<>>, nowIso, k) ELSE kept

\* a cascade with its filter inverted
EntriesAfterDeleteInverted(es, id) == SelectSeq(es, LAMBDA e : NotebookOf(e) = id)

\* the entry list performDelete leaves (cascade)
EntriesAfterDelete(es, id) == SelectSeq(es, LAMBDA e : NotebookOf(e) # id)

\* requestDeleteNotebook(notebookId) with its confirmation: performDelete
requestDeleteNotebook(id) ==
  /\ initOk
  /\ id \in NotebookIds(notebooks)
  /\ LET es == EntriesAfterDelete(entries, id)
         nbs == NotebooksAfterDelete(notebooks, id, now, idSeq)
         act == IF activeNotebookId = id
                THEN setActiveNotebookId(nbs, IF Len(nbs) > 0 THEN nbs[1].id ELSE "default")
                ELSE activeNotebookId
         sorted == getChronologicallySortedEntries(es, act)
     IN /\ entries' = es
        /\ notebooks' = nbs
        /\ activeNotebookId' = act
        /\ IF Len(sorted) = 0
           THEN /\ ApplyView(EmptyView)
                /\ ShowJournalView(searchVisible, searchOpenedFromEntryId,
                                   searchPickedEntryId)
           ELSE /\ ApplyView(OpenMostRecent(sorted, currentDayIso, currentDayEntries))
                /\ UNCHANGED <<searchVisible, journalVisible, searchOpenedFromEntryId,
                               searchPickedEntryId>>
  /\ Persist(<<entries'>>, <<notebooks'>>,
             IF activeNotebookId = id THEN <<activeNotebookId'>> ELSE <<>>)
  /\ photoPending' = RebaseFiltered(photoPending, entries, id)
  /\ UNCHANGED <<images, imageStoreFails>>
  /\ OpInfo("requestDeleteNotebook", id,
            Len(entries) - Len(EntriesAfterDelete(entries, id)), activeNotebookId = id)
  /\ UNCHANGED <<now, idSeq, initOk, importPending, resultVars, fnVars>>

\* --------------------------------------------------------- search scope
\* A query is a sequence of whitespace-separated tokens:
\*   journal  journal:<name>, or journal:"<name>" / journal:'<name>' when
\*            quoted; journalRe needs one character or more after the
\*            colon, and a quoted name may be blank
\*   scopeAll scope:all
\*   allColon all:   (a prefix only at the start of the query)
\*   word     any other text, the characters in `name`
\*   gap      the blank String.replace puts where it takes a token out
JournalToken(name, quoted) == [kind |-> "journal", name |-> name, quoted |-> quoted]
ScopeAllToken == [kind |-> "scopeAll", name |-> <<>>, quoted |-> FALSE]
AllColonToken == [kind |-> "allColon", name |-> <<>>, quoted |-> FALSE]
TextToken(text) == [kind |-> "word", name |-> Chars(text), quoted |-> FALSE]
WordToken == TextToken("w")
GapToken == [kind |-> "gap", name |-> <<" ">>, quoted |-> FALSE]

\* the characters of a token as typed
TokenText(t) ==
  CASE t.kind = "journal" ->
         Chars("journal:") \o (IF t.quoted THEN <<"'">> \o t.name \o <<"'">> ELSE t.name)
    [] t.kind = "scopeAll" -> Chars("scope:all")
    [] t.kind = "allColon" -> Chars("all:")
    [] OTHER -> t.name

\* the characters of a query: its tokens with a blank between two
QueryText(q) ==
  LET F[i \in 0..Len(q)] ==
        IF i = 0 THEN <<>>
        ELSE IF i = 1 THEN TokenText(q[1])
        ELSE F[i - 1] \o <<" ">> \o TokenText(q[i])
  IN F[Len(q)]

\* String.prototype.trim on a query: blanks at its ends go
TrimGaps(q) ==
  LET inked == {i \in 1..Len(q) : q[i].kind # "gap"}
  IN IF inked = {} THEN <<>>
     ELSE SubSeq(q, CHOOSE i \in inked : \A j \in inked : i <= j,
                    CHOOSE i \in inked : \A j \in inked : i >= j)

Tokens ==
  { JournalToken(NameWork, TRUE), JournalToken(<<"n", "o">>, FALSE),
    JournalToken(<<" ">>, TRUE), ScopeAllToken, AllColonToken, WordToken }

\* index of the first token of the kind, 0 if none (String.match / replace
\* without the g flag act on the leftmost match)
FirstOfKind(q, kind) ==
  IF \E i \in 1..Len(q) : q[i].kind = kind
  THEN Min({i \in 1..Len(q) : q[i].kind = kind})
  ELSE 0

getNotebookIdByName(nbs, name) ==
  LET norm == normalizeNotebookName(name)
  IN IF norm = <<>> THEN ""
     ELSE IF \E i \in 1..Len(nbs) : normalizeNotebookName(nbs[i].name) = norm
     THEN nbs[Min({i \in 1..Len(nbs) : normalizeNotebookName(nbs[i].name) = norm})].id
     ELSE ""

\* a decision that looks at the scope tokens first
ScopeDecisionAllFirst(notebookName, hasScopeAll, hasAllPrefix) ==
  IF hasScopeAll \/ hasAllPrefix THEN "all"
  ELSE IF notebookName # <<>> THEN "journal"
  ELSE "active"

\* the final decision of parseSearchScope: journal: overrides scope
ScopeDecision(notebookName, hasScopeAll, hasAllPrefix) ==
  IF notebookName # <<>> THEN "journal"
  ELSE IF hasScopeAll \/ hasAllPrefix THEN "all"
  ELSE "active"

parseSearchScope(rawQuery, nbs) ==
  LET jm == FirstOfKind(rawQuery, "journal")
      notebookName == IF jm # 0 THEN Trim(rawQuery[jm].name) ELSE <<>>
      q1 == IF jm # 0 THEN TrimGaps([rawQuery EXCEPT ![jm] = GapToken]) ELSE rawQuery
      sm == FirstOfKind(q1, "scopeAll")
      hasScopeAll == sm # 0
      q2 == IF hasScopeAll THEN TrimGaps([q1 EXCEPT ![sm] = GapToken]) ELSE q1
      hasAllPrefix == q2 # <<>> /\ Head(q2).kind = "allColon"
      q3 == IF hasAllPrefix THEN TrimGaps(Tail(q2)) ELSE q2
      scope == ScopeDecision(notebookName, hasScopeAll, hasAllPrefix)
  IN [scope |-> scope,
      notebookId |-> IF scope = "journal" THEN getNotebookIdByName(nbs, notebookName) ELSE "",
      notebookName |-> IF scope = "journal" THEN notebookName ELSE <<>>,
      cleanedQuery |-> q3]

getEntriesForScope(es, act, scopeSpec) ==
  IF scopeSpec.scope = "active" THEN EntriesFor(es, act)
  ELSE IF scopeSpec.scope = "journal"
  THEN (IF ~TruthyStr(scopeSpec.notebookId) THEN <<>> ELSE EntriesFor(es, scopeSpec.notebookId))
  ELSE es

\* ------------------------------------------------------ tags and text
\* String.prototype.includes
Includes(hay, needle) ==
  \E i \in 0..(Len(hay) - Len(needle)) : SubSeq(hay, i + 1, i + Len(needle)) = needle

\* String.prototype.startsWith
StartsWith(s, prefix) == Len(s) >= Len(prefix) /\ SubSeq(s, 1, Len(prefix)) = prefix

\* raw.split(":").slice(1).join(":"): what follows the first colon
AfterFirstColon(s) ==
  LET colons == {i \in 1..Len(s) : s[i] = ":"}
  IN IF colons = {} THEN <<>>
     ELSE SubSeq(s, (CHOOSE i \in colons : \A j \in colons : i <= j) + 1, Len(s))

\* normalizeTagText on the characters of a text
normalizeTagText(raw) == ToLowerCase(CollapseWhitespace(Trim(raw)))

\* a parse that knows no "tag:*" / "tags:*"
parseTagQueryNoStar(q) ==
  LET raw == Trim(q)
      lower == ToLowerCase(raw)
      browse(fragment) == [mode |-> "tagBrowse", fragment |-> fragment]
  IN IF raw = <<>> THEN [mode |-> "entries", fragment |-> <<>>]
     ELSE IF lower \in {Chars("tag:"), Chars("tags:"), Chars("#")} THEN browse(<<>>)
     ELSE IF StartsWith(lower, Chars("tag:")) \/ StartsWith(lower, Chars("tags:"))
     THEN browse(Trim(AfterFirstColon(raw)))
     ELSE IF StartsWith(raw, Chars("#")) THEN browse(Trim(Tail(raw)))
     ELSE [mode |-> "entries", fragment |-> <<>>]

parseTagQuery(q) ==
  LET raw == Trim(q)
      lower == ToLowerCase(raw)
      browse(fragment) == [mode |-> "tagBrowse", fragment |-> fragment]
  IN IF raw = <<>> THEN [mode |-> "entries", fragment |-> <<>>]
     ELSE IF lower \in {Chars("tag:"), Chars("tags:"), Chars("#")} THEN browse(<<>>)
     ELSE IF lower \in {Chars("tag:*"), Chars("tags:*")} THEN browse(<<>>)
     ELSE IF StartsWith(lower, Chars("tag:")) \/ StartsWith(lower, Chars("tags:"))
     THEN browse(Trim(AfterFirstColon(raw)))
     ELSE IF StartsWith(raw, Chars("#")) THEN browse(Trim(Tail(raw)))
     ELSE [mode |-> "entries", fragment |-> <<>>]

\* Array.isArray(entry.tags) ? entry.tags : []
TagsOf(e) == IF IsArray(e.tags) THEN e.tags ELSE <<>>

\* the tags of the entries in scan order, each with the index of its entry,
\* its normalized text and its display text; tags whose normalized text is
\* empty are skipped
TagOccurrences(entryList) ==
  LET OfEntry(k) ==
        LET tags == TagsOf(entryList[k])
            all == [j \in 1..Len(tags) |->
                      [entry |-> k,
                       norm |-> normalizeTagText(Chars(tags[j].text)),
                       display |-> CollapseWhitespace(Trim(Chars(tags[j].text))),
                       color |-> tags[j].color]]
        IN SelectSeq(all, LAMBDA o : o.norm # <<>>)
      F[k \in 0..Len(entryList)] == IF k = 0 THEN <<>> ELSE F[k - 1] \o OfEntry(k)
  IN F[Len(entryList)]

\* a count of entries that counts every tag
CountEntriesPerTag(occs) == Len(occs)

\* rec.countEntries: seenInThisEntry lets an entry count once
CountEntries(occs) == Cardinality({occs[i].entry : i \in 1..Len(occs)})

\* the comparator of the tag index: countEntries descending, then display
compareTagRecords(a, b) ==
  IF b.countEntries # a.countEntries THEN b.countEntries - a.countEntries
  ELSE localeCompareNames(IF a.display # <<>> THEN a.display ELSE a.norm,
                          IF b.display # <<>> THEN b.display ELSE b.norm)

RECURSIVE SortTagRecords(_)
SortTagRecords(s) ==
  IF s = <<>> THEN <<>>
  ELSE LET r == SortTagRecords(SubSeq(s, 1, Len(s) - 1))
           x == Last(s)
           k == Cardinality({i \in 1..Len(r) : compareTagRecords(r[i], x) <= 0})
       IN SubSeq(r, 1, k) \o <<x>> \o SubSeq(r, k + 1, Len(r))

buildTagIndexFromEntries(entryList) ==
  LET occs == TagOccurrences(entryList)
      \* the keys of byNorm in insertion order
      firsts == {i \in 1..Len(occs) : \A j \in 1..(i - 1) : occs[j].norm # occs[i].norm}
      keys == SelectSeq([i \in 1..Len(occs) |-> IF i \in firsts THEN occs[i].norm ELSE <<>>],
                        LAMBDA n : n # <<>>)
      Rec(norm) ==
        LET mine == SelectSeq(occs, LAMBDA o : o.norm = norm)
            \* rec.display: set from the first tag, replaced while it is
            \* empty or equals norm
            display[i \in 1..Len(mine)] ==
              IF i = 1 THEN (IF mine[1].display # <<>> THEN mine[1].display ELSE norm)
              ELSE IF mine[i].display # <<>> /\ (display[i - 1] = <<>> \/ display[i - 1] = norm)
              THEN mine[i].display
              ELSE display[i - 1]
            \* rec.color: the first colour there is
            colored == SelectSeq(mine, LAMBDA o : o.color # "")
        IN [norm |-> norm,
            display |-> display[Len(mine)],
            countEntries |-> CountEntries(mine),
            countOccurrences |-> Len(mine),
            color |-> IF colored = <<>> THEN "" ELSE colored[1].color]
  IN SortTagRecords([i \in 1..Len(keys) |-> Rec(keys[i])])

\* the tag records runTagBrowseInScope renders
runTagBrowseInScope(fragment, inScope) ==
  LET fragNorm == normalizeTagText(fragment)
      tagIndex == buildTagIndexFromEntries(inScope)
  IN IF fragNorm = <<>> THEN tagIndex
     ELSE SelectSeq(tagIndex, LAMBDA t : \/ Includes(t.norm, fragNorm)
                                         \/ Includes(normalizeTagText(t.display), fragNorm))

\* [a, b, ...].join(" ")
JoinWithSpace(parts) ==
  LET F[i \in 0..Len(parts)] ==
        IF i = 0 THEN <<>>
        ELSE IF i = 1 THEN parts[1]
        ELSE F[i - 1] \o <<" ">> \o parts[i]
  IN F[Len(parts)]

entryMatchesQuery(entry, qLower) ==
  LET tags == TagsOf(entry)
      fields == <<Chars(entry.title), Chars(entry.body)>>
                  \o [j \in 1..Len(tags) |-> Chars(tags[j].text)]
  IN Includes(ToLowerCase(JoinWithSpace(fields)), qLower)

\* the entries runSearchEntriesByNormalizedTagInScope renders
runSearchEntriesByNormalizedTagInScope(tagNorm, inScope) ==
  LET norm == normalizeTagText(tagNorm)
  IN SortRecency(SelectSeq(inScope,
       LAMBDA e : \E j \in 1..Len(TagsOf(e)) :
                    normalizeTagText(Chars(TagsOf(e)[j].text)) = norm))

\* ---------------------------------------------------------------- search
\* nb ? (nb.name || "Journal") : "Journal"
getNotebookNameById(nbs, id) ==
  LET found == {i \in 1..Len(nbs) : nbs[i].id = id}
  IN IF found = {} \/ nbs[Min(found)].name = <<>> THEN NameJournal
     ELSE nbs[Min(found)].name

\* scopeLabel / titlePrefix of a search that is run
ScopeLabel(scopeSpec, nbs, act) ==
  IF scopeSpec.scope = "all" THEN Label("all", <<>>)
  ELSE IF scopeSpec.scope = "journal"
  THEN Label("journal", getNotebookNameById(nbs, scopeSpec.notebookId))
  ELSE Label("journal", getNotebookNameById(nbs, act))

\* what a renderSearchResults call leaves in the search card
Rendered(state, items, badges, tagItems, scopeSpec, label) ==
  [state |-> state, items |-> items, badges |-> badges, tagItems |-> tagItems,
   scopeSpec |-> scopeSpec, label |-> label]

\* the renderSearchResults call of runSearch(query). Lists stay far below
\* MAX_SEARCH_RESULTS and MAX_TAG_RESULTS.
SearchOutcome(query, es, nbs, act) ==
  LET scopeSpec == parseSearchScope(query, nbs)
      q == Trim(QueryText(scopeSpec.cleanedQuery))
      tagSpec == parseTagQuery(q)
      pool == getEntriesForScope(es, act, scopeSpec)
      results == SortRecency(SelectSeq(pool, LAMBDA e : entryMatchesQuery(e, ToLowerCase(q))))
      missing == scopeSpec.scope = "journal" /\ ~TruthyStr(scopeSpec.notebookId)
      tagBrowse == Rendered("tagBrowse", <<>>, FALSE,
                            runTagBrowseInScope(tagSpec.fragment, pool), scopeSpec,
                            ScopeLabel(scopeSpec, nbs, act))
      emptyLabel ==
        IF missing
        THEN Label("journal", IF scopeSpec.notebookName # <<>> THEN scopeSpec.notebookName
                              ELSE Chars("Unknown"))
        ELSE ScopeLabel(scopeSpec, nbs, act)
  IN IF q = <<>>
     THEN (IF tagSpec.mode = "tagBrowse" THEN tagBrowse
           ELSE Rendered("emptyQuery", <<>>, FALSE, <<>>, NoScopeSpec, emptyLabel))
     ELSE IF missing
     THEN Rendered("noResults", <<>>, FALSE, <<>>, NoScopeSpec,
                   Label("notFound", scopeSpec.notebookName))
     ELSE IF tagSpec.mode = "tagBrowse" THEN tagBrowse
     ELSE Rendered("results", IdsOf(results), scopeSpec.scope = "all", <<>>, NoScopeSpec,
                   ScopeLabel(scopeSpec, nbs, act))

ApplyRendered(out) ==
  /\ searchState' = out.state
  /\ searchItems' = out.items
  /\ searchBadges' = out.badges
  /\ searchTagItems' = out.tagItems
  /\ searchScopeSpec' = out.scopeSpec
  /\ searchScopeLabel' = out.label

\* the queries typed into #search-input
SearchQueries ==
  { <<WordToken>>, <<ScopeAllToken, WordToken>>,
    <<JournalToken(NameWork, TRUE), WordToken>>,
    <<JournalToken(NameJournal, FALSE), WordToken>>,
    <<TextToken("#")>>, <<JournalToken(<<"n", "o">>, FALSE)>> }

\* runSearch(query); lastOp keeps the scope and whether it named a journal
\* there is not
runSearch(query) ==
  /\ initOk
  /\ \E out \in {SearchOutcome(query, entries, notebooks, activeNotebookId)} :
       ApplyRendered(out)
  /\ NoPersist
  /\ UNCHANGED photoVars
  /\ LET scopeSpec == parseSearchScope(query, notebooks)
     IN OpInfo("runSearch", scopeSpec.scope, 0,
               scopeSpec.scope = "journal" /\ ~TruthyStr(scopeSpec.notebookId))
  /\ searchOpenedFromEntryId' = IF ~Truthy(searchOpenedFromEntryId) THEN currentEntryId
                                ELSE searchOpenedFromEntryId
  /\ searchPickedEntryId' = 0
  /\ currentDayIso' = 0
  /\ currentDayEntries' = <<>>
  /\ searchVisible' = TRUE
  /\ journalVisible' = FALSE
  /\ UNCHANGED <<entries, notebooks, activeNotebookId, currentEntryId, editorVars, now,
                 idSeq, initOk, importPending, fnVars>>

\* click on a rendered tag item
openTagResult(i) ==
  /\ initOk
  /\ searchVisible
  /\ i \in 1..Len(searchTagItems)
  /\ LET inScope == getEntriesForScope(entries, activeNotebookId, searchScopeSpec)
         results == runSearchEntriesByNormalizedTagInScope(searchTagItems[i].norm, inScope)
     IN ApplyRendered(Rendered("results", IdsOf(results), searchScopeSpec.scope = "all",
                               <<>>, NoScopeSpec,
                               ScopeLabel(searchScopeSpec, notebooks, activeNotebookId)))
  /\ searchVisible' = TRUE
  /\ journalVisible' = FALSE
  /\ NoPersist
  /\ UNCHANGED photoVars
  /\ Op("openTagResult", searchScopeSpec.scope)
  /\ UNCHANGED <<entries, notebooks, activeNotebookId, now, idSeq, initOk, importPending,
                 viewVars, searchOpenedFromEntryId, searchPickedEntryId, fnVars>>

\* click on a rendered result item: openEntryFromSearchGlobal when the
\* list was rendered with journal badges, else openEntryFromSearch
openSearchResult(i) ==
  /\ initOk
  /\ searchVisible
  /\ i \in 1..Len(searchItems)
  /\ LET entryId == searchItems[i]
         found == FindIndex(entries, entryId)
         nbId == NotebookOf(entries[found])
         act == IF searchBadges /\ nbId # activeNotebookId
                THEN setActiveNotebookId(notebooks, nbId)
                ELSE activeNotebookId
         sorted == getChronologicallySortedEntries(entries, act)
         idx == FindIndex(sorted, entryId)
     IN /\ searchBadges => found # 0
        /\ activeNotebookId' = act
        /\ Persist(<<>>, <<>>, IF searchBadges /\ nbId # activeNotebookId THEN <<act>>
                                ELSE <<>>)
        /\ searchPickedEntryId' = entryId
        /\ IF idx = 0
           THEN UNCHANGED <<viewVars, searchVisible, journalVisible>>
           ELSE /\ searchVisible' = TRUE
                /\ journalVisible' = TRUE
                /\ ApplyView(goToEntryAtIndex(entries, act, idx, TRUE, CurView))
  /\ UNCHANGED photoVars
  /\ Op("openSearchResult", IF searchBadges THEN "global" ELSE "local")
  /\ UNCHANGED <<entries, notebooks, now, idSeq, initOk, importPending, resultVars,
                 searchOpenedFromEntryId, fnVars>>

\* closeSearchResults(): the close button of the search card, or Escape
closeSearchResults ==
  /\ initOk
  /\ searchVisible
  /\ LET shouldReturnToOpenedFrom == ~Truthy(searchPickedEntryId)
         targetId == searchOpenedFromEntryId
         sorted == getChronologicallySortedEntries(entries, activeNotebookId)
         idx == FindIndex(sorted, targetId)
     IN IF shouldReturnToOpenedFrom /\ Truthy(targetId)
        THEN IF idx = 0
             THEN UNCHANGED <<viewVars, journalVisible>>
             ELSE /\ journalVisible' = TRUE
                  /\ ApplyView(goToEntryAtIndex(entries, activeNotebookId, idx,
                                                FALSE, CurView))
        ELSE /\ journalVisible' = TRUE
             /\ UNCHANGED viewVars
  /\ searchVisible' = FALSE
  /\ searchOpenedFromEntryId' = 0
  /\ searchPickedEntryId' = 0
  /\ NoPersist
  /\ UNCHANGED photoVars
  /\ Op("closeSearchResults", "")
  /\ UNCHANGED <<entries, notebooks, activeNotebookId, now, idSeq, initOk,
                 importPending, resultVars, fnVars>>

\* openEntryById(entryId) from the journal page or a day-results item
openEntryById(entryId, view) ==
  LET sorted == getChronologicallySortedEntries(entries, activeNotebookId)
      idx == FindIndex(sorted, entryId)
  IN IF idx = 0 THEN view
     ELSE goToEntryAtIndex(entries, activeNotebookId, idx, FALSE, view)

handleCalendarDayClick(isoDate) ==
  /\ initOk
  /\ LET sorted == getChronologicallySortedEntries(entries, activeNotebookId)
         sameDay == SelectSeq(sorted, LAMBDA e : e.date = isoDate)
         grp == DayGroup(sorted, isoDate)
         staged == [CurView EXCEPT !.dayIso = grp.iso, !.dayIds = grp.ids]
     IN ApplyView(IF Len(sameDay) = 0
                  THEN [staged EXCEPT !.dayIso = 0, !.dayIds = <<>>]
                  ELSE openEntryById(sameDay[1].id, staged))
  /\ ShowJournalView(searchVisible, searchOpenedFromEntryId, searchPickedEntryId)
  /\ NoPersist
  /\ UNCHANGED photoVars
  /\ Op("handleCalendarDayClick", "")
  /\ UNCHANGED <<entries, notebooks, activeNotebookId, now, idSeq, initOk,
                 importPending, resultVars, fnVars>>

\* click on an item of the day-results card
openDayResult(i) ==
  /\ initOk
  /\ i \in 1..Len(currentDayEntries)
  /\ LET sorted == getChronologicallySortedEntries(entries, activeNotebookId)
         idx == FindIndex(sorted, currentDayEntries[i])
     IN /\ idx # 0
        /\ ApplyView(openEntryById(currentDayEntries[i], CurView))
  /\ ShowJournalView(searchVisible, searchOpenedFromEntryId, searchPickedEntryId)
  /\ NoPersist
  /\ UNCHANGED photoVars
  /\ Op("openDayResult", "")
  /\ UNCHANGED <<entries, notebooks, activeNotebookId, now, idSeq, initOk,
                 importPending, resultVars, fnVars>>

\* ---------------------------------------------------------------- import
\* "Keep default first", then by name
compareBuilt(a, b) ==
  IF a.id = "default" THEN 0 - 1
  ELSE IF b.id = "default" THEN 1
  ELSE localeCompareNames(a.name, b.name)

RECURSIVE SortBuilt(_)
SortBuilt(s) ==
  IF s = <<>> THEN <<>>
  ELSE LET r == SortBuilt(SubSeq(s, 1, Len(s) - 1))
           x == Last(s)
           k == Cardinality({i \in 1..Len(r) : compareBuilt(r[i], x) <= 0})
       IN SubSeq(r, 1, k) \o <<x>> \o SubSeq(r, k + 1, Len(r))

\* the journal ids of the entries in first-seen order (a Set's iteration
\* order), "default" added last when no entry has it
ImportedNotebookIds(es) ==
  LET F[i \in 0..Len(es)] ==
        IF i = 0 THEN <<>>
        ELSE IF NotebookOf(es[i]) \in Range(F[i - 1]) THEN F[i - 1]
        ELSE Append(F[i - 1], NotebookOf(es[i]))
      ids == F[Len(es)]
  IN IF "default" \in Range(ids) THEN ids ELSE Append(ids, "default")

\* the name buildNotebooksFromEntries gives the journal of an id: the name
\* of the journal that has the id now, else a stock name
BuiltName(nbs, id) ==
  IF \E i \in 1..Len(nbs) : nbs[i].id = id
  THEN nbs[Min({i \in 1..Len(nbs) : nbs[i].id = id})].name
  ELSE IF id = "default" THEN NameJournal
  ELSE NameImported

buildNotebooksFromEntries(es, nbs, nowIso) ==
  LET ids == ImportedNotebookIds(es)
  IN SortBuilt([i \in 1..Len(ids) |->
                  ensureNotebookShape([id |-> ids[i], name |-> BuiltName(nbs, ids[i]),
                                       createdAt |-> 0, updatedAt |-> 0], nowIso, "")])

\* applyImportedData after its await: the editor and the views are reset
ImportReset(es, act) ==
  LET sorted == getChronologicallySortedEntries(es, act)
  IN /\ ApplyView(IF Len(sorted) = 0 THEN EmptyView ELSE OpenMostRecent(sorted, 0, <<>>))
     /\ ShowJournalView(TRUE, 0, 0)

\* applyImportedData up to `await migrateImagesToIndexedDBIfNeeded(entries)`.
\* The await suspends the handler (other handlers run before it resumes)
\* exactly when an imported entry carries legacy inline image data that has
\* to be written to IndexedDB: `suspends` says whether the file has such one.
\* withNotebooks tells a bundle with a journal list from a bare entry array.
\* es, nbs and act are the handler's locals, each computed once.
applyImportedData(rawEntries, withNotebooks, rawNotebooks, importedActiveId, suspends) ==
  /\ initOk
  /\ ~importPending
  /\ Len(rawEntries) > 0
  /\ \E es \in {MigrateEntries(rawEntries, now)} :
     \E nbs \in {IF withNotebooks THEN migrateNotebooks(rawNotebooks, now, idSeq)
                 ELSE migrateNotebooks(buildNotebooksFromEntries(es, notebooks, now), now, idSeq)} :
     \E act \in {setActiveNotebookId(nbs, IF TruthyStr(importedActiveId) THEN importedActiveId
                                          ELSE nbs[1].id)} :
     LET k == IF withNotebooks THEN IdsConsumed(rawNotebooks, Len(rawNotebooks)) ELSE 0
     IN /\ idSeq + k <= MaxGenIds
        /\ entries' = es
        /\ notebooks' = nbs
        /\ activeNotebookId' = act
        /\ idSeq' = idSeq + k
        /\ IF suspends
           THEN UNCHANGED <<viewVars, searchVisible, journalVisible,
                            searchOpenedFromEntryId, searchPickedEntryId>>
           ELSE ImportReset(es, act)
  /\ importPending' = suspends
  /\ Persist(<<entries'>>, <<notebooks'>>, <<activeNotebookId'>>)
  /\ photoPending' = [photoPending EXCEPT !.ref = 0]
  /\ UNCHANGED <<images, imageStoreFails>>
  /\ Op("applyImportedData", IF withNotebooks THEN "bundle" ELSE "array")
  /\ UNCHANGED <<now, initOk, resultVars, fnVars>>

\* applyImportedData resumes after the await
applyImportedDataResume ==
  /\ importPending
  /\ ImportReset(entries, activeNotebookId)
  /\ importPending' = FALSE
  /\ Persist(<<entries>>, <<>>, <<>>)
  /\ UNCHANGED photoVars
  /\ Op("applyImportedDataResume", "")
  /\ UNCHANGED <<entries, notebooks, activeNotebookId, now, idSeq, initOk,
                 resultVars, fnVars>>

\* --------------------------------------------------------- photo upload
\* handlePhotoFile(file) of an image file: the FileReader starts reading
handlePhotoFile ==
  /\ initOk
  /\ Truthy(currentEntryId)
  /\ photoPending.phase = "none"
  /\ photoPending' = [NoPhoto EXCEPT !.phase = "reading", !.forId = currentEntryId]
  /\ NoPersist
  /\ Op("handlePhotoFile", "")
  /\ UNCHANGED <<memVars, images, imageStoreFails, fnVars>>

\* reader.onload: the entry is the one that is current now; an entry with
\* a photo awaits ImageStore.deleteImage(entry.imageId), one without calls
\* generateId() and awaits ImageStore.saveImage
photoReaderOnload ==
  /\ initOk
  /\ photoPending.phase = "reading"
  /\ LET k == CurrentIndex(entries, currentEntryId)
     IN IF k = 0
        THEN /\ photoPending' = NoPhoto
             /\ UNCHANGED idSeq
        ELSE IF Truthy(entries[k].imageId)
        THEN /\ photoPending' = [photoPending EXCEPT !.phase = "deleting", !.ref = k,
                                                     !.oldId = entries[k].imageId]
             /\ UNCHANGED idSeq
        ELSE /\ idSeq < MaxGenIds
             /\ idSeq' = idSeq + 1
             /\ photoPending' = [photoPending EXCEPT !.phase = "saving", !.ref = k,
                                                     !.newId = GenImageId(idSeq + 1)]
  /\ NoPersist
  /\ Op("photoReaderOnload", "")
  /\ UNCHANGED <<entries, notebooks, activeNotebookId, now, initOk, importPending,
                 viewVars, searchVars, images, imageStoreFails, fnVars>>

\* ImageStore.deleteImage of the old blob settles (a failure is caught),
\* then generateId() and ImageStore.saveImage(newImageId, src) is awaited
photoDeleteSettled ==
  /\ initOk
  /\ photoPending.phase = "deleting"
  /\ idSeq < MaxGenIds
  /\ idSeq' = idSeq + 1
  /\ images' = IF imageStoreFails THEN images ELSE images \ {photoPending.oldId}
  /\ photoPending' = [photoPending EXCEPT !.phase = "saving",
                                          !.newId = GenImageId(idSeq + 1)]
  /\ NoPersist
  /\ Op("photoDeleteSettled", "")
  /\ UNCHANGED <<entries, notebooks, activeNotebookId, now, initOk, importPending,
                 viewVars, searchVars, imageStoreFails, fnVars>>

\* ImageStore.saveImage settles: on success the held entry object takes the
\* new id and the collection is written through; a failure is caught
photoSaveSettled ==
  /\ initOk
  /\ photoPending.phase = "saving"
  /\ IF imageStoreFails
     THEN /\ UNCHANGED <<entries, isNonTextDirty, images>>
          /\ NoPersist
     ELSE /\ images' = images \cup {photoPending.newId}
          /\ entries' = IF photoPending.ref = 0 THEN entries
                        ELSE [entries EXCEPT ![photoPending.ref].imageId = photoPending.newId,
                                             ![photoPending.ref].updatedAt = now]
          /\ isNonTextDirty' = TRUE
          /\ Persist(<<entries'>>, <<>>, <<>>)
  /\ photoPending' = NoPhoto
  /\ Op("photoSaveSettled", IF imageStoreFails THEN "failed" ELSE "saved")
  /\ UNCHANGED <<notebooks, activeNotebookId, currentEntryId, now, idSeq, initOk,
                 importPending, fieldDate, fieldTitle, fieldBody, currentTags,
                 currentEntrySnapshot, isEditorDirty, currentDayIso, currentDayEntries,
                 searchVars, imageStoreFails, fnVars>>

\* removePhotoFromCurrentEntry(), with the ImageStore.deleteImage it awaits
\* (a failure is caught)
removePhotoFromCurrentEntry ==
  /\ initOk
  /\ LET k == CurrentIndex(entries, currentEntryId)
     IN /\ k # 0
        /\ Truthy(entries[k].imageId)
        /\ entries' = [entries EXCEPT ![k].imageId = 0, ![k].updatedAt = now]
        /\ images' = IF imageStoreFails THEN images ELSE images \ {entries[k].imageId}
  /\ isNonTextDirty' = TRUE
  /\ Persist(<<entries'>>, <<>>, <<>>)
  /\ Op("removePhotoFromCurrentEntry", "")
  /\ UNCHANGED <<notebooks, activeNotebookId, currentEntryId, now, idSeq, initOk,
                 importPending, fieldDate, fieldTitle, fieldBody, currentTags,
                 currentEntrySnapshot, isEditorDirty, currentDayIso, currentDayEntries,
                 searchVars, imageStoreFails, photoPending, fnVars>>

\* ----------------------------------------------------------------- Next
Next ==
  \/ Tick
  \/ newEntry
  \/ \E d \in Dates \cup {0} : editDate(d)
  \/ \E t \in TitleInputs : editTitle(t)
  \/ \E b \in BodyInputs : editBody(b)
  \/ saveCurrentEntry
  \/ \E text \in TagInputs : applyTagDialogChanges("create", 0, text)
  \/ \E i \in 1..MaxTags, text \in TagInputs : applyTagDialogChanges("edit", i, text)
  \/ \E i \in 1..MaxTags : deleteActiveTag(i)
  \/ deleteCurrentEntryShowPrev
  \/ goToPreviousEntry
  \/ goToNextEntry
  \/ \E id \in NotebookIds(notebooks) : selectNotebook(id)
  \/ \E input \in NameInputs : addNotebook(input)
  \/ \E id \in NotebookIds(notebooks), input \in NameInputs : renameNotebook(id, input)
  \/ \E id \in NotebookIds(notebooks) : requestDeleteNotebook(id)
  \/ \E query \in SearchQueries : runSearch(query)
  \/ \E i \in 1..MaxEntries : openSearchResult(i)
  \/ \E i \in 1..MaxEntries : openTagResult(i)
  \/ closeSearchResults
  \/ \E d \in Dates : handleCalendarDayClick(d)
  \/ \E i \in 1..MaxEntries : openDayResult(i)
  \/ \E p \in ImportPayloads, suspends \in BOOLEAN :
       applyImportedData(p.entries, p.withNotebooks, p.notebooks, p.active, suspends)
  \/ applyImportedDataResume
  \/ handlePhotoFile
  \/ photoReaderOnload
  \/ photoDeleteSettled
  \/ photoSaveSettled
  \/ removePhotoFromCurrentEntry
  \/ storageQuota
  \/ imageStoreHealth

Spec == Init /\ [][Next]_vars

\* ------------------------------------------------ focused specifications
\* Each is Init with a sub-disjunction of Next: the handlers that write the
\* variables its properties read, the rest of the application idle.

\* journals and their entries: every handler that writes `notebooks` or an
\* entry's notebookId
NextJournals ==
  \/ newEntry
  \/ deleteCurrentEntryShowPrev
  \/ \E id \in NotebookIds(notebooks) : selectNotebook(id)
  \/ \E input \in NameInputs : addNotebook(input)
  \/ \E id \in NotebookIds(notebooks), input \in NameInputs : renameNotebook(id, input)
  \/ \E id \in NotebookIds(notebooks) : requestDeleteNotebook(id)
  \/ \E p \in ImportPayloads :
       applyImportedData(p.entries, p.withNotebooks, p.notebooks, p.active, FALSE)

SpecJournals == Init /\ [][NextJournals]_vars

\* bulk import: the import, its continuation after the await, and handlers
\* the user can reach while the image migration is pending
NextImport ==
  \/ \E p \in ImportPayloads, suspends \in BOOLEAN :
       applyImportedData(p.entries, p.withNotebooks, p.notebooks, p.active, suspends)
  \/ applyImportedDataResume
  \/ \E t \in TitleInputs : editTitle(t)
  \/ saveCurrentEntry
  \/ goToPreviousEntry
  \/ \E d \in Dates : handleCalendarDayClick(d)

SpecImport == Init /\ [][NextImport]_vars

\* photos: the upload with its awaits, the removal, the failures of the
\* image store, and the handlers that change what the upload finds:
\* navigation, deletion, import
NextPhoto ==
  \/ handlePhotoFile
  \/ photoReaderOnload
  \/ photoDeleteSettled
  \/ photoSaveSettled
  \/ removePhotoFromCurrentEntry
  \/ imageStoreHealth
  \/ goToPreviousEntry
  \/ deleteCurrentEntryShowPrev
  \/ \E p \in ImportPayloads :
       applyImportedData(p.entries, p.withNotebooks, p.notebooks, p.active, FALSE)

SpecPhoto == Init /\ [][NextPhoto]_vars

\* a failing store: every handler that persists, with localStorage
\* refusing writes at any time
NextStore ==
  \/ storageQuota
  \/ editTitle("w")
  \/ saveCurrentEntry
  \/ applyTagDialogChanges("create", 0, "blue")
  \/ deleteActiveTag(1)
  \/ handlePhotoFile
  \/ photoReaderOnload
  \/ photoSaveSettled
  \/ removePhotoFromCurrentEntry
  \/ deleteCurrentEntryShowPrev
  \/ \E id \in NotebookIds(notebooks) : selectNotebook(id)
  \/ addNotebook(<<" ", "w", " ", " ", "x", " ">>)
  \/ \E id \in NotebookIds(notebooks) : renameNotebook(id, <<" ", "w", " ", " ", "x", " ">>)
  \/ \E id \in NotebookIds(notebooks) : requestDeleteNotebook(id)

\* the first start of the app: nothing stored yet
InitStore ==
  /\ InitFrom(<<>>, <<>>, "")
  /\ FnIdle

SpecStore == InitStore /\ [][NextStore]_vars

\* write-through: the handlers that edit the tags and the photo of the
\* current entry, and the staged edits of its date, title and body
NextWriteThrough ==
  \/ editDate(1)
  \/ editTitle("w")
  \/ editBody("x")
  \/ saveCurrentEntry
  \/ applyTagDialogChanges("create", 0, "blue")
  \/ applyTagDialogChanges("edit", 1, "Blue ")
  \/ deleteActiveTag(1)
  \/ handlePhotoFile
  \/ photoReaderOnload
  \/ photoDeleteSettled
  \/ photoSaveSettled
  \/ removePhotoFromCurrentEntry

SpecWriteThrough == Init /\ [][NextWriteThrough]_vars

\* search sessions: the handlers of the search page with the navigation
\* and journal handlers that open an entry
NextSearch ==
  \/ newEntry
  \/ goToPreviousEntry
  \/ goToNextEntry
  \/ \E id \in NotebookIds(notebooks) : selectNotebook(id)
  \/ \E id \in NotebookIds(notebooks) : requestDeleteNotebook(id)
  \/ \E query \in SearchQueries : runSearch(query)
  \/ \E i \in 1..MaxEntries : openSearchResult(i)
  \/ \E i \in 1..MaxEntries : openTagResult(i)
  \/ closeSearchResults

SpecSearch == Init /\ [][NextSearch]_vars

\* chronological order: every handler that writes an entry's date or
\* timestamps, and the navigation that picks the entry they write
NextOrder ==
  \/ Tick
  \/ newEntry
  \/ \E d \in Dates \cup {0} : editDate(d)
  \/ saveCurrentEntry
  \/ applyTagDialogChanges("edit", 1, "Blue ")
  \/ deleteCurrentEntryShowPrev
  \/ goToPreviousEntry
  \/ goToNextEntry
  \/ \E id \in NotebookIds(notebooks) : selectNotebook(id)

SpecOrder == Init /\ [][NextOrder]_vars

\* the editor: the handlers that write a field, the tags, the snapshot or a
\* dirty flag, with the step to the entry before; the date field is cleared
\* or set to the first day
NextEditor ==
  \/ newEntry
  \/ \E d \in {0, 1} : editDate(d)
  \/ \E t \in TitleInputs : editTitle(t)
  \/ \E b \in BodyInputs : editBody(b)
  \/ saveCurrentEntry
  \/ applyTagDialogChanges("edit", 1, "Blue ")
  \/ deleteActiveTag(1)
  \/ goToPreviousEntry

SpecEditor == Init /\ [][NextEditor]_vars

\* ------------------------------------------------- functions under check
\* raw entry records: each field missing (falsy), well-formed, or a truthy
\* value of the wrong type
RawEntryRecords ==
  [id : {1}, imageId : {0},
   notebookId : {"", "n1", WrongStr},
   tags : {NotArray, <<>>, <<"t">>},
   attachments : {NotArray, <<>>},
   createdAt : {0, 1, WrongNum},
   updatedAt : {0, 2, WrongNum},
   date : {0, 1, WrongNum},
   title : {"", "t", WrongStr},
   body : {"", "b"}]

RawNotebookRecords ==
  [id : {"", "default", "n1"},
   name : {<<>>, <<" ">>, <<" ", "W", " ">>, NameJournal},
   createdAt : {0, 1},
   updatedAt : {0, 2}]

\* raw journal lists: a value that is no array, and lists of raw records
RawNotebookLists ==
  {NotArrayList} \cup {<<>>} \cup {<<n>> : n \in RawNotebookRecords}
    \cup {<<n, m>> : n \in RawNotebookRecords, m \in {N1, N3}}

\* queries of at most MaxTokens tokens, in every order
RECURSIVE QueriesOfLen(_)
QueriesOfLen(n) ==
  IF n = 0 THEN {<<>>}
  ELSE {Append(q, t) : q \in QueriesOfLen(n - 1), t \in Tokens}

Queries == UNION {QueriesOfLen(n) : n \in 0..MaxTokens}

\* the application as a first run leaves it, one input waiting
InitNorm ==
  /\ InitFrom(<<>>, <<>>, "")
  /\ \/ \E e \in RawEntryRecords : fnArg = [kind |-> "entry", list |-> <<e>>]
     \/ \E l \in RawNotebookLists : fnArg = [kind |-> "notebooks", list |-> l]
  /\ fnRes = NoRes

\* migrateEntry on the record, then on its own result at a later time t2 of a
\* day d2
ApplyMigrateEntry(t2, d2) ==
  /\ fnArg.kind = "entry"
  /\ fnRes = NoRes
  /\ LET once == migrateEntry(fnArg.list[1], now, Today)
     IN fnRes' = [op |-> "migrateEntry", at |-> t2, once |-> <<once>>,
                  twice |-> <<migrateEntry(once, t2, d2)>>]
  /\ UNCHANGED <<appVars, lastOp, fnArg>>

\* migrateNotebooks on the list, then on its own result at a later time t2
\* with k2 ids generated before
ApplyMigrateNotebooks(t2, k2) ==
  /\ fnArg.kind = "notebooks"
  /\ fnRes = NoRes
  /\ LET once == migrateNotebooks(fnArg.list, now, 0)
     IN fnRes' = [op |-> "migrateNotebooks", at |-> t2, once |-> once,
                  twice |-> migrateNotebooks(once, t2, k2)]
  /\ UNCHANGED <<appVars, lastOp, fnArg>>

NextNorm ==
  \/ \E t2 \in 2..MaxTime, d2 \in 1..MaxTime : ApplyMigrateEntry(t2, d2)
  \/ \E t2 \in 2..MaxTime, k2 \in 2..(2 + MaxGenIds) : ApplyMigrateNotebooks(t2, k2)

SpecNorm == InitNorm /\ [][NextNorm]_vars

\* the application after start-up, one query waiting
InitScope ==
  /\ \E st \in StoredStates : InitFrom(st.entries, st.notebooks, st.active)
  /\ \E q \in Queries : fnArg = [kind |-> "query", list |-> q]
  /\ fnRes = NoRes

ApplyParseSearchScope ==
  /\ fnArg.kind = "query"
  /\ fnRes = NoRes
  /\ fnRes' = [op |-> "parseSearchScope", at |-> now,
               once |-> <<parseSearchScope(fnArg.list, notebooks)>>, twice |-> <<>>]
  /\ UNCHANGED <<appVars, lastOp, fnArg>>

NextScope == ApplyParseSearchScope

SpecScope == InitScope /\ [][NextScope]_vars

\* scope qualifiers and the texts typed after them
SearchTokens ==
  {JournalToken(NameWork, TRUE), JournalToken(<<"n", "o">>, FALSE), ScopeAllToken}
    \cup {TextToken(t) : t \in {"w", "x", "#", "#proj", "tag:", "TAGS:lue", "tag:*", "#*"}}

RECURSIVE SearchQueriesOfLen(_)
SearchQueriesOfLen(n) ==
  IF n = 0 THEN {<<>>}
  ELSE {Append(q, t) : q \in SearchQueriesOfLen(n - 1), t \in SearchTokens}

\* the application after start-up, one query typed into the search box
InitEngine ==
  /\ \E st \in StoredStates : InitFrom(st.entries, st.notebooks, st.active)
  /\ \E q \in UNION {SearchQueriesOfLen(n) : n \in 0..MaxTokens} :
       fnArg = [kind |-> "search", list |-> q]
  /\ fnRes = NoRes

\* Enter in the search box, then clicks on the tag records it lists
NextEngine ==
  \/ fnArg.kind = "search" /\ runSearch(fnArg.list)
  \/ \E i \in 1..MaxEntries : fnArg.kind = "search" /\ openTagResult(i)

SpecEngine == InitEngine /\ [][NextEngine]_vars

\* tag texts as typed: two casings and spacings of one tag, another tag, a
\* blank
TagTexts == {"blue", " BLUE", "re  d", " "}

RECURSIVE TagListsOfLen(_)
TagListsOfLen(n) ==
  IF n = 0 THEN {<<>>}
  ELSE {Append(l, Tag(t, IF t = " BLUE" THEN "c1" ELSE "")) : l \in TagListsOfLen(n - 1), t \in TagTexts}

\* the tags of an entry; NotArray is a record that never had a tags array
TagLists == UNION {TagListsOfLen(n) : n \in 0..MaxTagsPerEntry} \cup {NotArray}

RECURSIVE TaggedEntryListsOfLen(_)
TaggedEntryListsOfLen(n) ==
  IF n = 0 THEN {<<>>}
  ELSE {Append(l, [RawEntry(n, "default", 1, n, n) EXCEPT !.tags = tags]) :
          l \in TaggedEntryListsOfLen(n - 1), tags \in TagLists}

\* the application as a first run leaves it, one entry set waiting
InitTagIndex ==
  /\ InitFrom(<<>>, <<>>, "")
  /\ \E l \in UNION {TaggedEntryListsOfLen(n) : n \in 0..MaxIndexed} :
       fnArg = [kind |-> "entries", list |-> l]
  /\ fnRes = NoRes

ApplyBuildTagIndex ==
  /\ fnArg.kind = "entries"
  /\ fnRes = NoRes
  /\ fnRes' = [op |-> "buildTagIndexFromEntries", at |-> now,
               once |-> buildTagIndexFromEntries(fnArg.list), twice |-> <<>>]
  /\ UNCHANGED <<appVars, lastOp, fnArg>>

NextTagIndex == ApplyBuildTagIndex

SpecTagIndex == InitTagIndex /\ [][NextTagIndex]_vars

\* =============================================================== claims
\* ------------------------------------------------------------------- C1
\* C1: the journal list is never empty; deleting the last journal leaves
\* exactly one freshly synthesized default journal; deleting the only entry
\* of the only journal leaves one journal and no entry.
C1_JournalsNeverEmpty ==
  /\ [](Len(notebooks) >= 1)
  /\ [][\A id \in NotebookIds(notebooks) :
          (requestDeleteNotebook(id) /\ Len(notebooks) = 1)
            => notebooks' = <<DefaultNotebook(now)>>]_vars
  /\ [][(deleteCurrentEntryShowPrev /\ Len(notebooks) = 1 /\ Len(entries) = 1)
          => (Len(notebooks') = 1 /\ entries' = <<>>)]_vars

\* the journal "default" was deleted as the last one and a new journal
\* "default" is there
C1_Witness ==
  /\ lastOp.name = "requestDeleteNotebook"
  /\ lastOp.arg = "default"
  /\ notebooks = <<DefaultNotebook(now)>>
  /\ entries = <<>>

\* ------------------------------------------------------------------- C2
\* C2: right after deleteJournal(J) no entry belongs to J (an entry without
\* journal id belongs to "default"), and the entries of every other journal
\* are all there, unchanged and in their order.
C2_CascadeIntegrity ==
  [][\A id \in NotebookIds(notebooks) :
       requestDeleteNotebook(id)
         => /\ \A i \in 1..Len(entries') : NotebookOf(entries'[i]) # id
            /\ \A i \in 1..Len(entries) :
                 NotebookOf(entries[i]) # id
                   => EntriesFor(entries', NotebookOf(entries[i]))
                        = EntriesFor(entries, NotebookOf(entries[i]))]_vars

\* a deletion removed entries and left entries of another journal
C2_Witness ==
  /\ lastOp.name = "requestDeleteNotebook"
  /\ lastOp.n >= 1
  /\ Len(entries) >= 1

\* ------------------------------------------------------------------- C3
\* C3: currentEntryId is unset or the id of an entry of the active journal.
C3_CurrentEntryInActiveJournal ==
  \/ currentEntryId = 0
  \/ \E i \in 1..Len(entries) :
       entries[i].id = currentEntryId /\ NotebookOf(entries[i]) = activeNotebookId

\* ------------------------------------------------------------------- C4
\* C4: activeNotebookId is the id of a journal of the list; activating an id
\* no journal has activates the first journal.
C4_ActiveJournalExists ==
  /\ activeNotebookId \in NotebookIds(notebooks)
  /\ \A id \in {"gone", "x", ""} \ NotebookIds(notebooks) :
       setActiveNotebookId(notebooks, id) = notebooks[1].id

\* the active journal was deleted, another journal survived and is active
C4_Witness ==
  /\ lastOp.name = "requestDeleteNotebook"
  /\ lastOp.flag
  /\ lastOp.arg \notin NotebookIds(notebooks)
  /\ activeNotebookId = notebooks[1].id

\* ------------------------------------------------------------------- C5
\* C5: every entry's journal id is the id of a journal of the list.
C5_EntriesResolveToJournals ==
  \A i \in 1..Len(entries) : NotebookOf(entries[i]) \in NotebookIds(notebooks)

\* ------------------------------------------------------------------- C6
\* C6: every journal name is non-empty and no two journals have names that
\* are equal after trimming, whitespace collapsing and case folding.
C6_JournalNamesUnique ==
  /\ \A i \in 1..Len(notebooks) : normalizeNotebookName(notebooks[i].name) # <<>>
  /\ \A i, j \in 1..Len(notebooks) :
       i # j => normalizeNotebookName(notebooks[i].name)
                  # normalizeNotebookName(notebooks[j].name)

\* ------------------------------------------------------------------- C7
\* the tuple (date, createdAt, updatedAt, id) and its lexicographic order
TupleOf(e) == <<e.date, e.createdAt, e.updatedAt, e.id>>

LexLess(s, t) ==
  \E k \in 1..4 : s[k] < t[k] /\ \A m \in 1..(k - 1) : s[m] = t[m]

CountIn(s, e) == Cardinality({i \in 1..Len(s) : s[i] = e})

\* C7: the sorted list holds exactly the entries of the active journal, each
\* once, in ascending lexicographic order of (date, createdAt, updatedAt,
\* id), strictly ascending for entries with distinct ids.
C7_SortedLexicographic ==
  LET own == EntriesFor(entries, activeNotebookId)
      sorted == getChronologicallySortedEntries(entries, activeNotebookId)
  IN /\ Len(sorted) = Len(own)
     /\ \A i \in 1..Len(own) : CountIn(sorted, own[i]) = CountIn(own, own[i])
     /\ \A i \in 1..Len(sorted) : NotebookOf(sorted[i]) = activeNotebookId
     /\ \A i, j \in 1..Len(sorted) :
          i < j => /\ ~LexLess(TupleOf(sorted[j]), TupleOf(sorted[i]))
                   /\ sorted[i].id # sorted[j].id
                        => LexLess(TupleOf(sorted[i]), TupleOf(sorted[j]))

\* after a save the entry array holds two entries of the active journal
\* with the same date and createdAt, the later updated one first, and the
\* sorted list turns them round
C7_Witness ==
  LET sorted == getChronologicallySortedEntries(entries, activeNotebookId)
  IN /\ lastOp.name = "saveCurrentEntry"
     /\ \E i, j \in 1..Len(entries) :
          /\ i < j
          /\ NotebookOf(entries[i]) = activeNotebookId
          /\ NotebookOf(entries[j]) = activeNotebookId
          /\ entries[i].date = entries[j].date
          /\ entries[i].createdAt = entries[j].createdAt
          /\ entries[i].updatedAt > entries[j].updatedAt
          /\ FindIndex(sorted, entries[j].id) < FindIndex(sorted, entries[i].id)

\* ------------------------------------------------------------------- C8
\* es[i] comes before es[j] in the sorted list of the journal nbId
Precedes(es, nbId, i, j) ==
  LET sorted == getChronologicallySortedEntries(es, nbId)
  IN FindIndex(sorted, es[i].id) < FindIndex(sorted, es[j].id)

\* C8: of two entries of the active journal with equal date and different
\* createdAt the earlier created one comes first, and a save or a tag /
\* photo edit that leaves both dates as they are never changes the relative
\* position of two entries with different createdAt.
C8_ResaveKeepsPosition ==
  /\ [](\A i, j \in 1..Len(entries) :
          ( /\ NotebookOf(entries[i]) = activeNotebookId
            /\ NotebookOf(entries[j]) = activeNotebookId
            /\ entries[i].date = entries[j].date
            /\ entries[i].createdAt < entries[j].createdAt )
            => Precedes(entries, activeNotebookId, i, j))
  /\ [][(saveCurrentEntry \/ applyTagDialogChanges("edit", 1, "Blue "))
          => \A i, j \in 1..Len(entries) :
               ( /\ NotebookOf(entries[i]) = activeNotebookId
                 /\ NotebookOf(entries[j]) = activeNotebookId
                 /\ entries[i].createdAt # entries[j].createdAt
                 /\ entries'[i].date = entries[i].date
                 /\ entries'[j].date = entries[j].date )
                 => (Precedes(entries', activeNotebookId, i, j)
                       <=> Precedes(entries, activeNotebookId, i, j))]_vars

\* the open entry was saved again and is now updated later than an entry of
\* the same day that was created after it
C8_Witness ==
  /\ lastOp.name = "saveCurrentEntry"
  /\ \E i, j \in 1..Len(entries) :
       /\ entries[i].id = currentEntryId
       /\ NotebookOf(entries[i]) = activeNotebookId
       /\ NotebookOf(entries[j]) = activeNotebookId
       /\ entries[i].date = entries[j].date
       /\ entries[i].createdAt < entries[j].createdAt
       /\ entries[i].updatedAt > entries[j].updatedAt

\* ------------------------------------------------------------------- C9
\* C9: migrating a migrated entry record again, at a later time, changes no
\* field; the same for migrating a migrated journal list again.
C9_NormalizeIdempotent ==
  fnRes.op \in {"migrateEntry", "migrateNotebooks"} => fnRes.twice = fnRes.once

\* a record without timestamps and date was migrated, and migrated again at
\* a later time
C9_Witness ==
  /\ fnRes.op = "migrateEntry"
  /\ fnArg.list[1].createdAt = 0
  /\ fnArg.list[1].updatedAt = 0
  /\ fnArg.list[1].date = 0
  /\ fnArg.list[1].tags = NotArray
  /\ fnRes.once[1].createdAt = now
  /\ fnRes.at > now

\* ------------------------------------------------------------------ C10
HasKind(q, kind) == \E i \in 1..Len(q) : q[i].kind = kind

\* the scope the result must have, given which qualifier counts as a
\* journal qualifier
ExpectedScope(q, journalCounts, leadingAll) ==
  IF journalCounts THEN "journal"
  ELSE IF HasKind(q, "scopeAll") \/ leadingAll THEN "all"
  ELSE "active"

C11_UnknownJournalNotFound ==
  (lastOp.name = "runSearch" /\ fnArg.kind = "search")
    => LET scopeSpec == parseSearchScope(fnArg.list, notebooks)
       IN (scopeSpec.scope = "journal" /\ scopeSpec.notebookId = "")
            => /\ searchState = "noResults"
               /\ searchScopeLabel.kind = "notFound"
               /\ searchItems = <<>>
               /\ searchTagItems = <<>>

\* ------------------------------------------------------------------ C12
\* C12: the tag index has one record per distinct non-empty normalized tag
\* text; countEntries is the number of entries holding a tag of that text,
\* countOccurrences the number of such tags; "Blue ", "blue" and " BLUE"
\* are one text.
C12_TagIndexCounts ==
  /\ normalizeTagText(Chars("Blue ")) = Chars("blue")
  /\ normalizeTagText(Chars(" BLUE")) = Chars("blue")
  /\ normalizeTagText(Chars("re  d")) = Chars("re d")
  /\ fnRes.op = "buildTagIndexFromEntries"
       => LET l == fnArg.list
              idx == fnRes.once
              NormAt(k, j) == normalizeTagText(Chars(TagsOf(l[k])[j].text))
              tagged == {kj \in (1..Len(l)) \X (1..MaxTagsPerEntry) :
                           kj[2] <= Len(TagsOf(l[kj[1]])) /\ NormAt(kj[1], kj[2]) # <<>>}
          IN /\ \A i, j \in 1..Len(idx) : idx[i].norm = idx[j].norm => i = j
             /\ {idx[i].norm : i \in 1..Len(idx)} = {NormAt(kj[1], kj[2]) : kj \in tagged}
             /\ \A i \in 1..Len(idx) :
                  LET mine == {kj \in tagged : NormAt(kj[1], kj[2]) = idx[i].norm}
                  IN /\ idx[i].countEntries = Cardinality({kj[1] : kj \in mine})
                     /\ idx[i].countOccurrences = Cardinality(mine)

\* an index whose record of "blue" counts three tags in two entries
C12_Witness ==
  /\ fnRes.op = "buildTagIndexFromEntries"
  /\ \E i \in 1..Len(fnRes.once) :
       /\ fnRes.once[i].norm = Chars("blue")
       /\ fnRes.once[i].countEntries = 2
       /\ fnRes.once[i].countOccurrences = 3

\* ------------------------------------------------------------------ C13
\* C13: the display text of a tag record is the text (trimmed, whitespace
\* collapsed) of the first tag of its normalized text in scan order.
C13_DisplayIsFirstCasing ==
  fnRes.op = "buildTagIndexFromEntries"
    => LET occs == TagOccurrences(fnArg.list)
       IN \A i \in 1..Len(fnRes.once) :
            LET first == Min({k \in 1..Len(occs) : occs[k].norm = fnRes.once[i].norm})
            IN fnRes.once[i].display = occs[first].display

C15_FreeTextPerField ==
  (lastOp.name = "runSearch" /\ fnArg.kind = "search" /\ searchState = "results")
    => LET scopeSpec == parseSearchScope(fnArg.list, notebooks)
           qLower == ToLowerCase(Trim(QueryText(scopeSpec.cleanedQuery)))
           pool == getEntriesForScope(entries, activeNotebookId, scopeSpec)
           Has(text) == Includes(ToLowerCase(text), qLower)
           Matches(e) ==
             \/ Has(Chars(e.title))
             \/ Has(Chars(e.body))
             \/ Has(JoinWithSpace([j \in 1..Len(TagsOf(e)) |-> Chars(TagsOf(e)[j].text)]))
       IN \A k \in 1..Len(pool) : (pool[k].id \in Range(searchItems)) <=> Matches(pool[k])

C17_DirtyIffChanged ==
  (initOk /\ currentEntryId # 0)
    => LET differs ==
             \/ currentEntrySnapshot = <<>>
             \/ currentEntrySnapshot[1] # [date |-> fieldDate, title |-> fieldTitle,
                                           body |-> fieldBody]
       IN /\ SaveEnabled(isEditorDirty, isNonTextDirty) <=> (differs \/ isNonTextDirty)
          /\ lastOp.name = "saveCurrentEntry"
               => ~isEditorDirty /\ ~isNonTextDirty /\ ~differs

\* ------------------------------------------------------------------ C18
\* C18: init() returns without an exception and leaves at least one journal,
\* an active journal of the list, and a current entry that is unset or an
\* entry of the active journal.
C18_InitCompletes ==
  lastOp.name = "init"
    => /\ initOk
       /\ Len(notebooks) >= 1
       /\ activeNotebookId \in NotebookIds(notebooks)
       /\ \/ currentEntryId = 0
          \/ \E k \in 1..Len(entries) :
               entries[k].id = currentEntryId /\ NotebookOf(entries[k]) = activeNotebookId

\* ------------------------------------------------------------------ C19
\* C19 as stated: newEntry appends one entry with a fresh id, today's date,
\* empty title and body, in the active journal, leaves the other entries as
\* they are, and leaves currentEntryId as it is.
C19_CreateDoesNotSelect ==
  [][newEntry
       => /\ Len(entries') = Len(entries) + 1
          /\ SubSeq(entries', 1, Len(entries)) = entries
          /\ Last(entries').id \notin Range(IdsOf(entries))
          /\ Last(entries').date = Today
          /\ Last(entries').title = "" /\ Last(entries').body = ""
          /\ Last(entries').notebookId = activeNotebookId
          /\ currentEntryId' = currentEntryId]_vars

\* C19: newEntry appends one entry with a fresh id, today's date, empty
\* title and body, in the active journal, leaves the other entries as they
\* are, and makes the new entry the current one.
C19_CreateAppendsAndSelects ==
  [][newEntry
       => /\ Len(entries') = Len(entries) + 1
          /\ SubSeq(entries', 1, Len(entries)) = entries
          /\ Last(entries').id \notin Range(IdsOf(entries))
          /\ Last(entries').date = Today
          /\ Last(entries').title = "" /\ Last(entries').body = ""
          /\ Last(entries').notebookId = activeNotebookId
          /\ currentEntryId' = Last(entries').id]_vars

\* a third entry was just created in journal n1 and is the current one
C19_Witness ==
  /\ lastOp.name = "newEntry"
  /\ Len(entries) = 3
  /\ Last(entries).notebookId = "n1"
  /\ currentEntryId = Last(entries).id

UniqueEntryIds ==
  \A a, b \in 1..Len(entries) : entries[a].id = entries[b].id => a = b

\* The same property of deleteCurrentEntryShowPrev in the states where no
\* two entries have one id (it holds there).
C24_DeleteShowsPreviousUniqueIds ==
  [][(deleteCurrentEntryShowPrev /\ UniqueEntryIds)
       => LET sortedBefore == getChronologicallySortedEntries(entries, activeNotebookId)
              i == FindIndex(sortedBefore, currentEntryId)
          IN /\ \E k \in 1..Len(entries) :
                  entries[k] = sortedBefore[i] /\ entries' = RemoveAt(entries, k)
             /\ currentEntryId' = IF Len(sortedBefore) = 1 THEN 0
                                  ELSE IF i > 1 THEN sortedBefore[i - 1].id
                                  ELSE sortedBefore[2].id]_vars

\* ------------------------------------------------------------------ C25
\* C25: within one search session, closing the search results returns to
\* the entry that was current when the search page appeared if no result
\* was clicked in the session, and keeps the entry shown if a result was
\* clicked, however many searches were run after the click.
C25_CloseReturnsOrKeeps ==
  [][closeSearchResults
       => currentEntryId' = IF lastOp.clicked THEN currentEntryId ELSE lastOp.from]_vars

\* ------------------------------------------------------------------ C26
\* C26: a click on an item of the result list, whatever the scope of the
\* search that rendered it, makes the clicked entry current, makes its
\* journal the active one and takes the dirty snapshot from that entry
\* (stated for entries with pairwise different ids whose journals exist).
C26_SelectMakesCurrent ==
  [][\A i \in 1..Len(searchItems) :
       (initOk /\ searchVisible /\ lastOp'.name = "openSearchResult"
          /\ UniqueEntryIds
          /\ (\A k \in 1..Len(entries) : NotebookOf(entries[k]) \in NotebookIds(notebooks))
          /\ searchPickedEntryId' = searchItems[i]
          /\ \E k \in 1..Len(entries) : entries[k].id = searchItems[i])
       => /\ currentEntryId' = searchItems[i]
          /\ \E k \in 1..Len(entries') :
               /\ entries'[k].id = searchItems[i]
               /\ NotebookOf(entries'[k]) = activeNotebookId'
               /\ currentEntrySnapshot' = <<Snapshot(entries'[k])>>]_vars

\* ------------------------------------------------------------------ C27
\* C27: one of the journal page and the search page is always visible, and
\* closing the search results always ends with the journal page visible.
C27_SomePageVisible ==
  /\ initOk => (journalVisible \/ searchVisible)
  /\ lastOp.name = "closeSearchResults" => journalVisible

C28_PhotoGoesToChosenEntry ==
  [][lastOp'.name = "photoSaveSettled"
       => \A k \in 1..Len(entries) :
            entries'[k].imageId # entries[k].imageId => entries[k].id = photoPending.forId]_vars

\* ------------------------------------------------------------------ C29
\* C29: when no upload is pending, every imageId of an entry names a blob
\* of the image store, whatever image-store operation failed.
C29_NoDanglingImage ==
  photoPending.phase = "none"
    => \A k \in 1..Len(entries) :
         Truthy(entries[k].imageId) => entries[k].imageId \in images

\* ------------------------------------------------------------------ C23
\* C23: photo and tag edits write through: after a tag is created, edited
\* or deleted, or a photo is added or removed, with a working store, the
\* persisted entry collection equals the one in memory; an edit of the
\* date, the title or the body changes neither collection.
C23_WriteThrough ==
  /\ [][(/\ ~storageFails
         /\ \/ lastOp'.name \in {"applyTagDialogChanges", "removePhotoFromCurrentEntry"}
            \/ lastOp'.name = "deleteActiveTag" /\ entries' # entries
            \/ lastOp'.name = "photoSaveSettled" /\ lastOp'.arg = "saved")
          => lsEntries' = entries']_vars
  /\ [][lastOp'.name \in {"editDate", "editTitle", "editBody"}
          => (entries' = entries /\ lsEntries' = lsEntries)]_vars

\* a photo was added to an entry that carries a tag, and both are persisted
C23_Witness ==
  /\ lastOp.name = "photoSaveSettled"
  /\ lastOp.arg = "saved"
  /\ lsEntries = entries
  /\ \E k \in 1..Len(entries) : Truthy(entries[k].imageId) /\ Len(entries[k].tags) > 0

\* ------------------------------------------------------------------ C21
\* C21: a write to localStorage that fails during a persisting operation
\* raises no exception in the handler, and the handler does its in-memory
\* work as with a working store: the entry is saved, the tag created, the
\* entry or the journal deleted, the journal added or renamed, the active
\* journal set.
C21_WriteFailureIsSilent ==
  /\ [][~uncaught']_vars
  /\ [][(storageFails /\ storageFails' /\ lastOp'.name = "saveCurrentEntry")
          => (/\ ~isEditorDirty'
              /\ \E k \in 1..Len(entries') :
                   /\ entries'[k].id = currentEntryId
                   /\ entries'[k].title = fieldTitle
                   /\ entries'[k].body = fieldBody
                   /\ entries'[k].tags = currentTags)]_vars
  /\ [][(storageFails /\ storageFails' /\ lastOp'.name = "applyTagDialogChanges")
          => \E k \in 1..Len(entries') :
               entries'[k].id = currentEntryId /\ Len(entries'[k].tags) = Len(currentTags) + 1]_vars
  /\ [][(storageFails /\ storageFails' /\ lastOp'.name = "removePhotoFromCurrentEntry")
          => \E k \in 1..Len(entries') :
               entries'[k].id = currentEntryId /\ ~Truthy(entries'[k].imageId)]_vars
  /\ [][(storageFails /\ storageFails' /\ lastOp'.name = "deleteCurrentEntryShowPrev")
          => Len(entries') = Len(entries) - 1]_vars
  /\ [][(storageFails /\ storageFails' /\ lastOp'.name = "addNotebook")
          => (Len(notebooks') = Len(notebooks) + 1 /\ activeNotebookId' = notebooks'[1].id)]_vars
  /\ [][(storageFails /\ storageFails' /\ lastOp'.name = "renameNotebook")
          => \E i \in 1..Len(notebooks') :
               notebooks'[i].id = lastOp'.arg /\ notebooks'[i].name = <<"w", " ", "x">>]_vars
  /\ [][(storageFails /\ storageFails' /\ lastOp'.name = "requestDeleteNotebook")
          => (/\ lastOp'.arg \notin NotebookIds(notebooks') \ {"default"}
              /\ \A k \in 1..Len(entries') : NotebookOf(entries'[k]) # lastOp'.arg)]_vars
  /\ [][(storageFails /\ storageFails' /\ lastOp'.name = "selectNotebook")
          => activeNotebookId' = lastOp'.arg]_vars

\* a journal was added while the store refused the write
C21_Witness ==
  /\ storageFails
  /\ ~uncaught
  /\ lastOp.name = "addNotebook"
  /\ Len(lsNotebooks) < Len(notebooks)

\* ------------------------------------------------------------------ C30
\* C30: after a journal is added, renamed or deleted with a working store,
\* the journals notebookService.loadAll() reads back have the ids and the
\* names of the journals in memory; a deleted journal is not among them.
C30_JournalsRoundTrip ==
  (~storageFails /\ lastOp.name \in {"addNotebook", "renameNotebook", "requestDeleteNotebook"})
    => LET loaded == migrateNotebooks(lsNotebooks, now, idSeq)
       IN /\ Len(loaded) = Len(notebooks)
          /\ \A i \in 1..Len(loaded) :
               loaded[i].id = notebooks[i].id /\ loaded[i].name = notebooks[i].name

====
